---- MODULE Spec2Model ----
(***************************************************************************)
(* Model of the KDD engine core: the in-memory graph store, the hybrid and *)
(* semantic queries, and the artifact writer with the per-document index   *)
(* command.  Strings are sequences of one-character strings, so that the   *)
(* formatting and parsing the code does on IDs, keys and query text is     *)
(* computed rather than assumed.                                           *)
(***************************************************************************)
EXTENDS Integers, Sequences, FiniteSets, TLC

VARIABLES
    graphNodes,   \* GraphStore.graph: node keys of the graphology graph, in insertion order
    graphEdges,   \* GraphStore.graph: edges of the graphology graph, [key, data], in insertion order
    nodes,        \* GraphStore.nodes: Map<string, GraphNode>, as a sequence in insertion order
    last,         \* the last call: its inputs, what it returned or threw, the calls it made
    vectorStore,  \* the container's VectorStore: [present, ids, vectors]; present is FALSE for null
    encodeFn,     \* the container's encodeFn: TRUE when it is a function, FALSE for null
    nodeFiles,    \* artifact tree: nodes/<kind>/<documentId>.json, the set of files [dir, name, data]
    edgesFile,    \* artifact tree: edges/edges.jsonl, [exists, lines]
    embFiles,     \* artifact tree: embeddings/<kind>/<documentId>.json, the set of files [dir, name, data]
    clock,        \* wall clock read by new Date() at extraction time
    manifestFile, \* artifact tree: manifest.json, [exists, data]
    cli           \* the running process: the index command's position in the file loop and its
                  \* counters, or the MCP server's container and the requests it is handling

vars == <<graphNodes, graphEdges, nodes, last, vectorStore, encodeFn,
          nodeFiles, edgesFile, embFiles, clock, manifestFile, cli>>

storeVars == <<graphNodes, graphEdges, nodes>>
vectorVars == <<vectorStore, encodeFn>>
diskVars == <<nodeFiles, edgesFile, embFiles, clock>>
cliVars == <<manifestFile, cli>>

-----------------------------------------------------------------------------
(* Strings *)

NoValue == <<"<undefined>">>
\* a file that does not exist
NoFile == [exists |-> FALSE, lines |-> <<>>]

Min(a, b) == IF a < b THEN a ELSE b
Max(a, b) == IF a > b THEN a ELSE b

Range(s) == {s[i] : i \in 1..Len(s)}

\* s.startsWith(p)
StartsWith(s, p) == Len(p) <= Len(s) /\ SubSeq(s, 1, Len(p)) = p

\* the positions at which sub occurs in s
Occurrences(s, sub) ==
    {i \in 1..(Len(s) - Len(sub) + 1) : SubSeq(s, i, i + Len(sub) - 1) = sub}

\* s.includes(sub)
Includes(s, sub) == Len(sub) = 0 \/ Occurrences(s, sub) # {}

\* s.split(sep)[0], for a non-empty separator
SplitHead(s, sep) ==
    IF Occurrences(s, sep) = {} THEN s
    ELSE LET i == CHOOSE j \in Occurrences(s, sep) : \A k \in Occurrences(s, sep) : j <= k
         IN  SubSeq(s, 1, i - 1)

\* s.split(sep).slice(1).join(sep), for a separator that occurs in s
SplitTail(s, sep) ==
    LET i == CHOOSE j \in Occurrences(s, sep) : \A k \in Occurrences(s, sep) : j <= k
    IN  SubSeq(s, i + Len(sep), Len(s))

WhiteSpace == {" ", "\t", "\n"}

\* s.trim()
RECURSIVE TrimLeft(_)
TrimLeft(s) == IF s # <<>> /\ Head(s) \in WhiteSpace THEN TrimLeft(Tail(s)) ELSE s

RECURSIVE TrimRight(_)
TrimRight(s) ==
    IF s # <<>> /\ s[Len(s)] \in WhiteSpace THEN TrimRight(SubSeq(s, 1, Len(s) - 1)) ELSE s

Trim(s) == TrimRight(TrimLeft(s))

UpperToLower ==
    [c \in {"A", "B", "C", "D", "E", "F", "G", "H", "I", "J", "K", "L", "M",
            "N", "O", "P", "Q", "R", "S", "T", "U", "V", "W", "X", "Y", "Z"} |->
        CASE c = "A" -> "a" [] c = "B" -> "b" [] c = "C" -> "c" [] c = "D" -> "d"
          [] c = "E" -> "e" [] c = "F" -> "f" [] c = "G" -> "g" [] c = "H" -> "h"
          [] c = "I" -> "i" [] c = "J" -> "j" [] c = "K" -> "k" [] c = "L" -> "l"
          [] c = "M" -> "m" [] c = "N" -> "n" [] c = "O" -> "o" [] c = "P" -> "p"
          [] c = "Q" -> "q" [] c = "R" -> "r" [] c = "S" -> "s" [] c = "T" -> "t"
          [] c = "U" -> "u" [] c = "V" -> "v" [] c = "W" -> "w" [] c = "X" -> "x"
          [] c = "Y" -> "y" [] c = "Z" -> "z"]

\* s.toLowerCase(), over the ASCII letters
ToLowerCase(s) ==
    [i \in 1..Len(s) |-> IF s[i] \in DOMAIN UpperToLower THEN UpperToLower[s[i]] ELSE s[i]]

-----------------------------------------------------------------------------
(* Domain types *)

K_entity == <<"e", "n", "t", "i", "t", "y">>
K_event == <<"e", "v", "e", "n", "t">>
K_use_case == <<"u", "s", "e", "-", "c", "a", "s", "e">>
K_business_rule == <<"b", "u", "s", "i", "n", "e", "s", "s", "-", "r", "u", "l", "e">>
K_command == <<"c", "o", "m", "m", "a", "n", "d">>
K_requirement == <<"r", "e", "q", "u", "i", "r", "e", "m", "e", "n", "t">>

\* Object.values(KDDKind), in declaration order
KDD_KINDS ==
    << <<"e", "n", "t", "i", "t", "y">>, <<"e", "v", "e", "n", "t">>,
       <<"b", "u", "s", "i", "n", "e", "s", "s", "-", "r", "u", "l", "e">>,
       <<"b", "u", "s", "i", "n", "e", "s", "s", "-", "p", "o", "l", "i", "c", "y">>,
       <<"c", "r", "o", "s", "s", "-", "p", "o", "l", "i", "c", "y">>,
       <<"c", "o", "m", "m", "a", "n", "d">>, <<"q", "u", "e", "r", "y">>,
       <<"p", "r", "o", "c", "e", "s", "s">>,
       <<"u", "s", "e", "-", "c", "a", "s", "e">>,
       <<"u", "i", "-", "v", "i", "e", "w">>,
       <<"u", "i", "-", "c", "o", "m", "p", "o", "n", "e", "n", "t">>,
       <<"r", "e", "q", "u", "i", "r", "e", "m", "e", "n", "t">>,
       <<"o", "b", "j", "e", "c", "t", "i", "v", "e">>, <<"p", "r", "d">>,
       <<"a", "d", "r">>, <<"g", "l", "o", "s", "s", "a", "r", "y">> >>

L_requirements == <<"0", "0", "-", "r", "e", "q", "u", "i", "r", "e", "m", "e", "n", "t", "s">>
L_domain == <<"0", "1", "-", "d", "o", "m", "a", "i", "n">>
L_behavior == <<"0", "2", "-", "b", "e", "h", "a", "v", "i", "o", "r">>
L_experience == <<"0", "3", "-", "e", "x", "p", "e", "r", "i", "e", "n", "c", "e">>
L_verification == <<"0", "4", "-", "v", "e", "r", "i", "f", "i", "c", "a", "t", "i", "o", "n">>

\* Object.values(KIND_PREFIX), in declaration order
KIND_PREFIX_VALUES ==
    << <<"E", "n", "t", "i", "t", "y">>, <<"E", "v", "e", "n", "t">>, <<"B", "R">>,
       <<"B", "P">>, <<"X", "P">>, <<"C", "M", "D">>, <<"Q", "R", "Y">>,
       <<"P", "R", "O", "C">>, <<"U", "C">>, <<"U", "I", "V", "i", "e", "w">>,
       <<"U", "I", "C", "o", "m", "p">>, <<"R", "E", "Q">>, <<"O", "B", "J">>,
       <<"P", "R", "D">>, <<"A", "D", "R">>, <<"G", "L", "O", "S", "S">> >>

\* KIND_PREFIX[kind]
KIND_PREFIX(kind) ==
    KIND_PREFIX_VALUES[CHOOSE i \in 1..Len(KDD_KINDS) : KDD_KINDS[i] = kind]

T_WIKI_LINK == <<"W", "I", "K", "I", "_", "L", "I", "N", "K">>
T_VALIDATES == <<"V", "A", "L", "I", "D", "A", "T", "E", "S">>
T_DOMAIN_RELATION == <<"D", "O", "M", "A", "I", "N", "_", "R", "E", "L", "A", "T", "I", "O", "N">>
T_ENTITY_RULE == <<"E", "N", "T", "I", "T", "Y", "_", "R", "U", "L", "E">>
T_UC_APPLIES_RULE == <<"U", "C", "_", "A", "P", "P", "L", "I", "E", "S", "_", "R", "U", "L", "E">>
T_UC_EXECUTES_CMD == <<"U", "C", "_", "E", "X", "E", "C", "U", "T", "E", "S", "_", "C", "M", "D">>
T_UC_STORY == <<"U", "C", "_", "S", "T", "O", "R", "Y">>
T_REQ_TRACES_TO == <<"R", "E", "Q", "_", "T", "R", "A", "C", "E", "S", "_", "T", "O">>
T_EMITS == <<"E", "M", "I", "T", "S">>

\* makeNodeId(kind, documentId)
makeNodeId(kind, documentId) == KIND_PREFIX(kind) \o <<":">> \o documentId

\* a GraphNode; title is indexed_fields.title (NoValue when the field is not set)
GraphNode(kind, documentId, layer, title, hash, at) ==
    [id |-> makeNodeId(kind, documentId), kind |-> kind, layer |-> layer,
     source_hash |-> hash, aliases |-> <<>>, title |-> title, indexed_at |-> at]

\* a GraphEdge
GraphEdge(from, to, type, violation) ==
    [from_node |-> from, to_node |-> to, edge_type |-> type, layer_violation |-> violation]

-----------------------------------------------------------------------------
(* Graph store (graphology wrapper) *)

\* the composite key load and addEdge give an edge
edgeKey(edge) ==
    edge.from_node \o <<"→">> \o edge.to_node \o <<":">> \o edge.edge_type

\* graph.hasNode(id)
graphHasNode(gn, id) == id \in Range(gn)

\* graph.hasEdge(key)
graphHasEdge(ge, key) == \E i \in 1..Len(ge) : ge[i].key = key

\* Map.set(node.id, node): an existing key keeps its place
mapSet(m, node) ==
    IF \E i \in 1..Len(m) : m[i].id = node.id
    THEN [i \in 1..Len(m) |-> IF m[i].id = node.id THEN node ELSE m[i]]
    ELSE Append(m, node)

\* Map.get(id) != null
mapHas(m, id) == \E i \in 1..Len(m) : m[i].id = id

mapGet(m, id) == m[CHOOSE i \in 1..Len(m) : m[i].id = id]

\* addEdge without the check of the destination endpoint
storeAddEdgeMissingTo(st, edge) ==
    IF ~graphHasNode(st.gn, edge.from_node) THEN st
    ELSE IF ~graphHasEdge(st.ge, edgeKey(edge))
         THEN [st EXCEPT !.ge = Append(@, [key |-> edgeKey(edge), data |-> edge])]
         ELSE st

\* GraphStore.addEdge(edge), and the body of load's loop over the edges
storeAddEdge(st, edge) ==
    IF ~graphHasNode(st.gn, edge.from_node) THEN st
    ELSE IF ~graphHasNode(st.gn, edge.to_node) THEN st
    ELSE IF ~graphHasEdge(st.ge, edgeKey(edge))
         THEN [st EXCEPT !.ge = Append(@, [key |-> edgeKey(edge), data |-> edge])]
         ELSE st

\* load's loop over the nodes; graphology's addNode throws on a key it already
\* holds, which leaves the store with the nodes added so far and no edge
RECURSIVE storeLoadNodes(_, _)
storeLoadNodes(st, ns) ==
    IF ns = <<>> THEN st
    ELSE IF graphHasNode(st.gn, Head(ns).id) THEN [st EXCEPT !.threw = TRUE]
    ELSE storeLoadNodes([st EXCEPT !.gn = Append(@, Head(ns).id),
                                   !.nodes = mapSet(@, Head(ns))], Tail(ns))

RECURSIVE storeLoadEdges(_, _)
storeLoadEdges(st, es) ==
    IF es = <<>> THEN st ELSE storeLoadEdges(storeAddEdge(st, Head(es)), Tail(es))

\* GraphStore.load(nodes, edges)
storeLoad(ns, es) ==
    LET cleared == [gn |-> <<>>, ge |-> <<>>, nodes |-> <<>>, threw |-> FALSE]
        withNodes == storeLoadNodes(cleared, ns)
    IN  IF withNodes.threw THEN withNodes ELSE storeLoadEdges(withNodes, es)

\* GraphStore.addNode(node)
storeAddNode(st, node) ==
    [st EXCEPT !.gn = IF graphHasNode(@, node.id) THEN @ ELSE Append(@, node.id),
               !.nodes = mapSet(@, node)]

theStore == [gn |-> graphNodes, ge |-> graphEdges, nodes |-> nodes, threw |-> FALSE]

nodeCount == Len(nodes)
edgeCount == Len(graphEdges)

\* allEdges()
allEdges == [i \in 1..Len(graphEdges) |-> graphEdges[i].data]

\* edgeMatches without the layer test
edgeMatchesAnyLayer(edge, edgeTypes, respectLayers) ==
    ~(edgeTypes # NoValue /\ edge.edge_type \notin Range(edgeTypes))

\* edgeMatches(edge, edgeTypes, respectLayers); edgeTypes is NoValue when undefined
edgeMatches(edge, edgeTypes, respectLayers) ==
    IF respectLayers /\ edge.layer_violation THEN FALSE
    ELSE IF edgeTypes # NoValue /\ edge.edge_type \notin Range(edgeTypes) THEN FALSE
    ELSE TRUE

\* the callback traverse gives forEachOutEdge and forEachInEdge: edge is the edge,
\* other the endpoint across it, dist the distance of the node being expanded
traverseVisit(acc, edge, other, dist, edgeTypes, respectLayers) ==
    IF ~edgeMatches(edge, edgeTypes, respectLayers) THEN acc
    ELSE IF other \in Range(acc.visited)
         THEN [acc EXCEPT !.collected = Append(@, edge)]
         ELSE [acc EXCEPT !.collected = Append(@, edge),
                          !.visited = Append(@, other),
                          !.queue = Append(@, <<other, dist + 1>>)]

\* graph.forEachOutEdge(current, callback): the out-edges in insertion order
RECURSIVE traverseOut(_, _, _, _, _, _, _)
traverseOut(ge, i, acc, current, dist, edgeTypes, respectLayers) ==
    IF i > Len(ge) THEN acc
    ELSE traverseOut(ge, i + 1,
                     IF ge[i].data.from_node = current
                     THEN traverseVisit(acc, ge[i].data, ge[i].data.to_node, dist,
                                        edgeTypes, respectLayers)
                     ELSE acc,
                     current, dist, edgeTypes, respectLayers)

\* graph.forEachInEdge(current, callback): the in-edges in insertion order
RECURSIVE traverseIn(_, _, _, _, _, _, _)
traverseIn(ge, i, acc, current, dist, edgeTypes, respectLayers) ==
    IF i > Len(ge) THEN acc
    ELSE traverseIn(ge, i + 1,
                    IF ge[i].data.to_node = current
                    THEN traverseVisit(acc, ge[i].data, ge[i].data.from_node, dist,
                                       edgeTypes, respectLayers)
                    ELSE acc,
                    current, dist, edgeTypes, respectLayers)

\* the loop of traverse that expands past the depth: dist > depth stops instead of dist >= depth
RECURSIVE traverseLoopPastDepth(_, _, _, _, _)
traverseLoopPastDepth(ge, acc, depth, edgeTypes, respectLayers) ==
    IF acc.queue = <<>> THEN acc
    ELSE LET current == Head(acc.queue)[1]
             dist == Head(acc.queue)[2]
             popped == [acc EXCEPT !.queue = Tail(@)]
         IN  IF dist > depth
             THEN traverseLoopPastDepth(ge, popped, depth, edgeTypes, respectLayers)
             ELSE traverseLoopPastDepth(ge,
                     traverseIn(ge, 1,
                         traverseOut(ge, 1, popped, current, dist, edgeTypes, respectLayers),
                         current, dist, edgeTypes, respectLayers),
                     depth, edgeTypes, respectLayers)

\* the while loop of traverse over the queue
RECURSIVE traverseLoop(_, _, _, _, _)
traverseLoop(ge, acc, depth, edgeTypes, respectLayers) ==
    IF acc.queue = <<>> THEN acc
    ELSE LET current == Head(acc.queue)[1]
             dist == Head(acc.queue)[2]
             popped == [acc EXCEPT !.queue = Tail(@)]
         IN  IF dist >= depth
             THEN traverseLoop(ge, popped, depth, edgeTypes, respectLayers)
             ELSE traverseLoop(ge,
                     traverseIn(ge, 1,
                         traverseOut(ge, 1, popped, current, dist, edgeTypes, respectLayers),
                         current, dist, edgeTypes, respectLayers),
                     depth, edgeTypes, respectLayers)

\* the duplicate filter traverse, hybridSearch and deduplicateEdges share: the
\* first edge of each from|to|type key, in order
RECURSIVE uniqueEdges(_, _)
uniqueEdges(es, seen) ==
    IF es = <<>> THEN <<>>
    ELSE LET key == Head(es).from_node \o <<"|">> \o Head(es).to_node \o <<"|">>
                        \o Head(es).edge_type
         IN  IF key \in seen THEN uniqueEdges(Tail(es), seen)
             ELSE <<Head(es)>> \o uniqueEdges(Tail(es), seen \cup {key})

\* visited ids mapped through this.nodes.get, nulls filtered out
RECURSIVE resultNodes(_, _)
resultNodes(m, ids) ==
    IF ids = <<>> THEN <<>>
    ELSE (IF mapHas(m, Head(ids)) THEN <<mapGet(m, Head(ids))>> ELSE <<>>)
            \o resultNodes(m, Tail(ids))

\* GraphStore.traverse(root, depth, edgeTypes, respectLayers)
traverse(st, root, depth, edgeTypes, respectLayers) ==
    IF ~graphHasNode(st.gn, root) THEN [nodes |-> <<>>, edges |-> <<>>]
    ELSE LET acc == traverseLoop(st.ge,
                        [visited |-> <<root>>, collected |-> <<>>, queue |-> <<<<root, 0>>>>],
                        depth, edgeTypes, respectLayers)
         IN  [nodes |-> resultNodes(st.nodes, acc.visited),
              edges |-> uniqueEdges(acc.collected, {})]

-----------------------------------------------------------------------------
(* Vector store.  Vectors are pairs of naturals with an integral norm, so that a
   cosine similarity is an exact number of hundredths. *)

dot(a, b) == a[1] * b[1] + a[2] * b[2]

\* Math.sqrt(sum of squares)
norm(a) == CHOOSE n \in 0..(a[1] + a[2]) : n * n = dot(a, a)

\* array.slice(0, n)
Slice(s, n) ==
    IF n >= 0 THEN SubSeq(s, 1, Min(n, Len(s))) ELSE SubSeq(s, 1, Max(Len(s) + n, 0))

\* sorted.sort((a, b) => b.score - a.score), one insertion: the sort is stable
RECURSIVE insertDesc(_, _)
insertDesc(sorted, x) ==
    IF sorted = <<>> THEN <<x>>
    ELSE IF Head(sorted).score >= x.score THEN <<Head(sorted)>> \o insertDesc(Tail(sorted), x)
    ELSE <<x>> \o sorted

RECURSIVE sortDesc(_, _)
sortDesc(list, sorted) ==
    IF list = <<>> THEN sorted ELSE sortDesc(Tail(list), insertDesc(sorted, Head(list)))

\* the scoring loop with a zero-norm stored vector scored 0 instead of NaN
RECURSIVE searchScoredZero(_, _, _, _)
searchScoredZero(vs, qv, minScoreMilli, i) ==
    IF i > Len(vs.vectors) THEN <<>>
    ELSE LET v == vs.vectors[i]
             sim == IF norm(v) = 0 THEN 0 ELSE (100 * dot(qv, v)) \div (norm(qv) * norm(v))
         IN  (IF 10 * sim >= minScoreMilli
              THEN <<[id |-> vs.ids[i], score |-> sim]>> ELSE <<>>)
                \o searchScoredZero(vs, qv, minScoreMilli, i + 1)

\* the scoring loop of search; a zero-norm stored vector gives NaN, which fails
\* sim >= minScore.  Scores are hundredths, minScoreMilli thousandths.
RECURSIVE searchScored(_, _, _, _)
searchScored(vs, qv, minScoreMilli, i) ==
    IF i > Len(vs.vectors) THEN <<>>
    ELSE LET v == vs.vectors[i]
             isNaN == norm(v) = 0
             sim == IF isNaN THEN 0 ELSE (100 * dot(qv, v)) \div (norm(qv) * norm(v))
         IN  (IF ~isNaN /\ 10 * sim >= minScoreMilli
              THEN <<[id |-> vs.ids[i], score |-> sim]>> ELSE <<>>)
                \o searchScored(vs, qv, minScoreMilli, i + 1)

\* VectorStore.search(queryVector, limit, minScore)
vectorSearch(vs, qv, limit, minScoreMilli) ==
    IF Len(vs.ids) = 0 THEN <<>>
    ELSE IF norm(qv) = 0 THEN <<>>
    ELSE Slice(sortDesc(searchScored(vs, qv, minScoreMilli, 1), <<>>), limit)

-----------------------------------------------------------------------------
(* Hybrid search.  Evidence scores are hundredths; Unset marks a source the
   inner map does not hold.  A fused score is a number of 1200ths. *)

WEIGHT_SEMANTIC == 6
WEIGHT_GRAPH == 3
WEIGHT_LEXICAL == 1
CHARS_PER_TOKEN == 4
Unset == -1
S_chunk == <<":", "c", "h", "u", "n", "k", "-">>

QUERY_TOO_SHORT == "QUERY_TOO_SHORT: query_text must be at least 3 characters"
NO_EMBEDDINGS == "NO_EMBEDDINGS: index is L1, semantic search skipped"

\* the query-length test without the trim
queryTooShortUntrimmed(queryText) == Len(queryText) < 3

\* queryText.trim().length < 3
queryTooShort(queryText) == Len(Trim(queryText)) < 3

\* the values nodeMatchesText searches (no field subset): the indexed fields
\* that are not null, the id, the aliases
searchValues(node) ==
    (IF node.title # NoValue THEN <<node.title>> ELSE <<>>) \o <<node.id>> \o node.aliases

\* nodeMatchesText(node, queryLower)
nodeMatchesText(node, queryLower) ==
    \E i \in 1..Len(searchValues(node)) : Includes(ToLowerCase(searchValues(node)[i]), queryLower)

\* GraphStore.textSearch(query)
RECURSIVE textSearchFrom(_, _, _)
textSearchFrom(m, queryLower, i) ==
    IF i > Len(m) THEN <<>>
    ELSE (IF nodeMatchesText(m[i], queryLower) THEN <<m[i]>> ELSE <<>>)
            \o textSearchFrom(m, queryLower, i + 1)

textSearch(m, query) == textSearchFrom(m, ToLowerCase(query), 1)

\* the first prefix of KIND_PREFIX whose prefix:docId is a stored node
RECURSIVE firstPrefixed(_, _, _)
firstPrefixed(m, docId, i) ==
    IF i > Len(KIND_PREFIX_VALUES) THEN NoValue
    ELSE IF mapHas(m, KIND_PREFIX_VALUES[i] \o <<":">> \o docId)
         THEN KIND_PREFIX_VALUES[i] \o <<":">> \o docId
         ELSE firstPrefixed(m, docId, i + 1)

\* embIdToNodeId(embId, graphStore); NoValue for null
embIdToNodeId(embId, m) ==
    LET docId == IF Includes(embId, S_chunk) THEN SplitHead(embId, S_chunk)
                 ELSE SplitHead(embId, <<":">>)
        prefixed == firstPrefixed(m, docId, 1)
    IN  IF prefixed # NoValue THEN prefixed
        ELSE IF mapHas(m, docId) THEN docId
        ELSE NoValue

\* kindLayerFilter(node, includeKinds, includeLayers)
kindLayerFilter(node, includeKinds, includeLayers) ==
    IF includeKinds # NoValue /\ node.kind \notin Range(includeKinds) THEN FALSE
    ELSE IF includeLayers # NoValue /\ node.layer \notin Range(includeLayers) THEN FALSE
    ELSE TRUE

\* scores.get(id) ?? new Map(), one source set, scores.set(id, existing)
scoresPut(scores, id, source, value) ==
    IF \E i \in 1..Len(scores) : scores[i].id = id
    THEN [i \in 1..Len(scores) |->
            IF scores[i].id = id THEN [scores[i] EXCEPT ![source] = value] ELSE scores[i]]
    ELSE Append(scores,
            [[id |-> id, semantic |-> Unset, graph |-> Unset, lexical |-> Unset]
                EXCEPT ![source] = value])

scoresGet(scores, id, source) ==
    IF \E i \in 1..Len(scores) : scores[i].id = id
    THEN (scores[CHOOSE i \in 1..Len(scores) : scores[i].id = id])[source]
    ELSE Unset

\* sources.get(name) ?? 0
orZero(v) == IF v = Unset THEN 0 ELSE v

\* Phase 1, the loop over the vector matches
RECURSIVE semanticPhase(_, _, _)
semanticPhase(scores, matches, m) ==
    IF matches = <<>> THEN scores
    ELSE LET nodeId == embIdToNodeId(Head(matches).id, m)
         IN  IF nodeId = NoValue THEN semanticPhase(scores, Tail(matches), m)
             ELSE semanticPhase(
                     scoresPut(scores, nodeId, "semantic",
                               Max(orZero(scoresGet(scores, nodeId, "semantic")),
                                   Head(matches).score)),
                     Tail(matches), m)

\* Phase 2, the loop over the lexical matches
RECURSIVE lexicalPhase(_, _, _, _)
lexicalPhase(scores, lexicalNodes, includeKinds, includeLayers) ==
    IF lexicalNodes = <<>> THEN scores
    ELSE lexicalPhase(
            IF kindLayerFilter(Head(lexicalNodes), includeKinds, includeLayers)
            THEN scoresPut(scores, Head(lexicalNodes).id, "lexical", 50)
            ELSE scores,
            Tail(lexicalNodes), includeKinds, includeLayers)

\* Phase 3, the loop over the nodes one traversal returned
RECURSIVE graphPhaseNodes(_, _, _, _, _)
graphPhaseNodes(scores, ns, seedId, includeKinds, includeLayers) ==
    IF ns = <<>> THEN scores
    ELSE graphPhaseNodes(
            IF Head(ns).id # seedId /\ kindLayerFilter(Head(ns), includeKinds, includeLayers)
            THEN scoresPut(scores, Head(ns).id, "graph", 50)
            ELSE scores,
            Tail(ns), seedId, includeKinds, includeLayers)

\* Phase 3, the loop over the seeds; acc is [scores, edges]
RECURSIVE graphPhase(_, _, _, _)
graphPhase(acc, seedIds, st, input) ==
    IF seedIds = <<>> THEN acc
    ELSE IF ~mapHas(st.nodes, Head(seedIds)) THEN graphPhase(acc, Tail(seedIds), st, input)
    ELSE LET r == traverse(st, Head(seedIds), input.depth, NoValue, input.respectLayers)
         IN  graphPhase(
                [scores |-> graphPhaseNodes(acc.scores, r.nodes, Head(seedIds),
                                            input.includeKinds, input.includeLayers),
                 edges |-> acc.edges \o r.edges],
                Tail(seedIds), st, input)

\* computeFusionScore with the lexical evidence weighted as the graph evidence is
computeFusionScoreHeavyLexical(sources) ==
    LET semantic == orZero(sources.semantic)
        graph == orZero(sources.graph)
        lexical == orZero(sources.lexical)
        sourceCount == Cardinality({k \in {"semantic", "graph", "lexical"} : sources[k] > 0})
        bonus == IF sourceCount > 1 THEN 100 * (sourceCount - 1) ELSE 0
        weighted == semantic * WEIGHT_SEMANTIC + graph * WEIGHT_GRAPH
                        + lexical * WEIGHT_GRAPH + bonus
    IN  Min(weighted, 1200)

\* computeFusionScore(sources): weighted is a number of thousandths, and
\* weighted / 1.2 capped at 1.0 is the same number of 1200ths capped at 1200
computeFusionScore(sources) ==
    LET semantic == orZero(sources.semantic)
        graph == orZero(sources.graph)
        lexical == orZero(sources.lexical)
        sourceCount == Cardinality({k \in {"semantic", "graph", "lexical"} : sources[k] > 0})
        bonus == IF sourceCount > 1 THEN 100 * (sourceCount - 1) ELSE 0
        weighted == semantic * WEIGHT_SEMANTIC + graph * WEIGHT_GRAPH
                        + lexical * WEIGHT_LEXICAL + bonus
    IN  Min(weighted, 1200)

\* determineMatchSource(sources)
determineMatchSource(sources) ==
    LET hasSemantic == orZero(sources.semantic) > 0
        hasGraph == orZero(sources.graph) > 0
    IN  IF hasSemantic /\ hasGraph THEN "fusion"
        ELSE IF hasSemantic THEN "semantic"
        ELSE IF hasGraph THEN "graph"
        ELSE "lexical"

\* buildSnippet(node)
buildSnippet(node) ==
    <<"[">> \o node.kind \o <<"]", " ">>
        \o (IF node.title # NoValue /\ node.title # <<>> THEN node.title ELSE node.id)

\* countTokens(text)
countTokens(text) == Max(1, Len(text) \div CHARS_PER_TOKEN)

\* Phase 4, the loop over the evidenced nodes; minScore is hundredths, and
\* score < minScore compares 1200ths to hundredths
RECURSIVE fusionPhase(_, _, _)
fusionPhase(scores, m, input) ==
    IF scores = <<>> THEN <<>>
    ELSE LET sources == Head(scores)
             score == computeFusionScore(sources)
         IN  (IF ~mapHas(m, sources.id) THEN <<>>
              ELSE IF ~kindLayerFilter(mapGet(m, sources.id), input.includeKinds,
                                       input.includeLayers) THEN <<>>
              ELSE IF score < 12 * input.minScore THEN <<>>
              ELSE <<[node_id |-> sources.id, score |-> score,
                      snippet |-> buildSnippet(mapGet(m, sources.id)),
                      match_source |-> determineMatchSource(sources)]>>)
                \o fusionPhase(Tail(scores), m, input)

\* the token truncation loop; acc is [results, totalTokens]
RECURSIVE tokenTruncation(_, _, _, _)
tokenTruncation(acc, fused, limit, maxTokens) ==
    IF fused = <<>> THEN acc
    ELSE LET snippetTokens == countTokens(Head(fused).snippet)
         IN  IF acc.totalTokens + snippetTokens > maxTokens /\ Len(acc.results) > 0 THEN acc
             ELSE LET next == [results |-> Append(acc.results, Head(fused)),
                               totalTokens |-> acc.totalTokens + snippetTokens]
                  IN  IF Len(next.results) >= limit THEN next
                      ELSE tokenTruncation(next, Tail(fused), limit, maxTokens)

\* the condition of the semantic phase with either collaborator enough
semanticAvailableEither(vs, enc) == vs.present \/ enc

\* if (vectorStore && encodeFn)
semanticAvailable(vs, enc) == vs.present /\ enc

\* hybridSearch(input, graphStore, vectorStore, encodeFn); qv is the vector the
\* encoder answers with when it is called.  calls lists the collaborators called,
\* in the order of their first call.
hybridSearch(input, st, vs, enc, qv) ==
    IF queryTooShort(input.queryText)
    THEN [error |-> QUERY_TOO_SHORT, calls |-> <<>>]
    ELSE
    LET semantic == semanticAvailable(vs, enc)
        matches == IF semantic
                   THEN vectorSearch(vs, qv, input.limit * 3, 8 * input.minScore)
                   ELSE <<>>
        scores1 == semanticPhase(<<>>, matches, st.nodes)
        warnings == IF semantic THEN <<>> ELSE <<NO_EMBEDDINGS>>
        scores2 == lexicalPhase(scores1, textSearch(st.nodes, input.queryText),
                                input.includeKinds, input.includeLayers)
        expanded == IF input.expandGraph
                    THEN graphPhase([scores |-> scores2, edges |-> <<>>],
                                    [i \in 1..Len(scores2) |-> scores2[i].id], st, input)
                    ELSE [scores |-> scores2, edges |-> <<>>]
        fused == sortDesc(fusionPhase(expanded.scores, st.nodes, input), <<>>)
        final == tokenTruncation([results |-> <<>>, totalTokens |-> 0], fused,
                                 input.limit, input.maxTokens)
    IN  [error |-> "none",
         results |-> final.results,
         graphExpansion |-> uniqueEdges(expanded.edges, {}),
         totalResults |-> Len(final.results),
         totalTokens |-> final.totalTokens,
         warnings |-> warnings,
         scores |-> expanded.scores,
         fused |-> fused,
         calls |-> (IF semantic THEN <<"encodeFn", "vectorStore.search">> ELSE <<>>)
                    \o (IF matches # <<>> THEN <<"graphStore.hasNode">> ELSE <<>>)
                    \o <<"graphStore.textSearch">>
                    \o (IF input.expandGraph /\ scores2 # <<>>
                        THEN (IF matches = <<>> THEN <<"graphStore.hasNode">> ELSE <<>>)
                                \o <<"graphStore.traverse">>
                        ELSE <<>>)
                    \o (IF expanded.scores # <<>> THEN <<"graphStore.getNode">> ELSE <<>>)]

-----------------------------------------------------------------------------
(* Semantic query *)

\* findNodeForDoc(docId, graphStore): the node in a one-element list, the empty
\* list for undefined
findNodeForDoc(docId, m) ==
    IF firstPrefixed(m, docId, 1) # NoValue THEN <<mapGet(m, firstPrefixed(m, docId, 1))>>
    ELSE IF mapHas(m, docId) THEN <<mapGet(m, docId)>>
    ELSE <<>>

\* the loop of semanticQuery over the vector matches
RECURSIVE semanticLoop(_, _, _, _, _)
semanticLoop(matches, seenNodes, results, m, input) ==
    IF matches = <<>> THEN results
    ELSE LET embId == Head(matches).id
             docId == IF Includes(embId, S_chunk) THEN SplitHead(embId, S_chunk)
                      ELSE SplitHead(embId, <<":">>)
             found == findNodeForDoc(docId, m)
             node == found[1]
         IN  IF found = <<>> THEN semanticLoop(Tail(matches), seenNodes, results, m, input)
             ELSE IF node.id \in seenNodes
                  THEN semanticLoop(Tail(matches), seenNodes, results, m, input)
             ELSE IF ~kindLayerFilter(node, input.includeKinds, input.includeLayers)
                  THEN semanticLoop(Tail(matches), seenNodes \cup {node.id}, results, m, input)
             ELSE LET next == Append(results,
                                [node_id |-> node.id, score |-> Head(matches).score,
                                 snippet |-> buildSnippet(node), match_source |-> "semantic"])
                  IN  IF Len(next) >= input.limit THEN next
                      ELSE semanticLoop(Tail(matches), seenNodes \cup {node.id}, next, m, input)

\* semanticQuery(input, vectorStore, graphStore, encodeFn, modelName); minScore is
\* hundredths
semanticQuery(input, st, vs, qv) ==
    IF queryTooShort(input.queryText)
    THEN [error |-> QUERY_TOO_SHORT, calls |-> <<>>]
    ELSE LET matches == vectorSearch(vs, qv, input.limit * 3, 10 * input.minScore)
             results == semanticLoop(matches, {}, <<>>, st.nodes, input)
         IN  [error |-> "none", results |-> results, totalResults |-> Len(results),
              calls |-> <<"encodeFn", "vectorStore.search">>
                            \o (IF matches # <<>> THEN <<"graphStore.getNode">> ELSE <<>>)]

-----------------------------------------------------------------------------
(* Artifact writer.  A directory tree is the set of its files [dir, name, data],
   with one file per (dir, name); edges.jsonl is the list of its lines, each the
   edge JSON.stringify wrote. *)

\* Bun.write(path, data) on a file of a tree: create or replace
fileWrite(files, dir, name, data) ==
    {f \in files : ~(f.dir = dir /\ f.name = name)}
        \cup {[dir |-> dir, name |-> name, data |-> data]}

\* writeNode with the part of the id before the first colon as the file name
writeNodeNamedByPrefix(files, node) ==
    LET docId == IF Includes(node.id, <<":">>) THEN SplitHead(node.id, <<":">>) ELSE node.id
    IN  fileWrite(files, node.kind, docId, node)

\* ArtifactWriter.writeNode(node)
writeNode(files, node) ==
    LET docId == IF Includes(node.id, <<":">>) THEN SplitTail(node.id, <<":">>) ELSE node.id
    IN  fileWrite(files, node.kind, docId, node)

\* ArtifactWriter.appendEdges(edges), called with a non-empty list
appendEdges(file, edges) ==
    IF file.exists THEN [exists |-> TRUE, lines |-> file.lines \o edges]
    ELSE [exists |-> TRUE, lines |-> edges]

\* ArtifactWriter.writeEmbeddings(embeddings); key.split("/", 2) keeps the part of
\* the document id before its first slash
writeEmbeddings(files, embeddings) ==
    IF Len(embeddings) = 0 THEN files
    ELSE LET keys == {<<embeddings[i].document_kind, embeddings[i].document_id>> :
                        i \in 1..Len(embeddings)}
             written == {[dir |-> k[1], name |-> SplitHead(k[2], <<"/">>),
                          data |-> SelectSeq(embeddings,
                                        LAMBDA e : <<e.document_kind, e.document_id>> = k)] :
                            k \in keys}
         IN  {f \in files : \A w \in written : ~(f.dir = w.dir /\ f.name = w.name)}
                \cup written

\* ArtifactWriter.clearEdges()
clearEdges == [exists |-> TRUE, lines |-> <<>>]

\* ArtifactWriter.removeEdgesForNode(nodeId)
removeEdgesForNode(file, nodeId) ==
    IF ~file.exists THEN file
    ELSE [exists |-> TRUE,
          lines |-> SelectSeq(file.lines,
                        LAMBDA data : data.from_node # nodeId /\ data.to_node # nodeId)]

\* ArtifactWriter.deleteDocumentArtifacts(documentId): the artifact trees it may
\* leave.  readdir lists the kind directories in an order the file system picks,
\* and the node loop stops at the first kind that holds <documentId>.json.
deleteDocumentArtifacts(nf, ef, mf, documentId) ==
    LET found == {f \in nf : f.name = documentId}
        embeddingsLeft == {f \in mf : f.name # documentId}
    IN  IF found = {}
        THEN {[nodeFiles |-> nf, edgesFile |-> ef, embFiles |-> embeddingsLeft]}
        ELSE {[nodeFiles |-> nf \ {f},
               edgesFile |-> removeEdgesForNode(ef, f.data.id),
               embFiles |-> embeddingsLeft] : f \in found}

-----------------------------------------------------------------------------
(* indexDocument.  A source file is [filePath, id, kind, layer, hash, links,
   chunks]: its path, its front-matter id (NoValue when absent), the kind it is
   routed to (NoValue when none), its layer, the hash of its content, the edges
   its extractor finds as [to, type, violation], and the number of chunks the
   chunker cuts. *)

S_md == <<".", "m", "d">>

\* basename(filePath, ".md")
basename(filePath, ext) ==
    LET slashes == Occurrences(filePath, <<"/">>)
        start == IF slashes = {} THEN 1
                 ELSE (CHOOSE j \in slashes : \A k \in slashes : k <= j) + 1
        name == SubSeq(filePath, start, Len(filePath))
    IN  IF Len(name) > Len(ext) /\ SubSeq(name, Len(name) - Len(ext) + 1, Len(name)) = ext
        THEN SubSeq(name, 1, Len(name) - Len(ext))
        ELSE name

\* frontMatter.id ?? basename(filePath, ".md")
documentIdOf(file) == IF file.id # NoValue THEN file.id ELSE basename(file.filePath, S_md)

\* extractor.extractNode(document): the node of the file's kind, stamped with the
\* time of the call
extractNode(file, now) ==
    GraphNode(file.kind, documentIdOf(file), file.layer, NoValue, file.hash, now)

\* extractor.extractEdges(document): every edge leaves the document's node
extractEdges(file) ==
    [i \in 1..Len(file.links) |->
        GraphEdge(makeNodeId(file.kind, documentIdOf(file)), file.links[i].to,
                  file.links[i].type, file.links[i].violation)]

Digit(n) == CASE n = 0 -> "0" [] n = 1 -> "1" [] n = 2 -> "2" [] n = 3 -> "3"

\* encodeFn(texts)[i]: the encoder is a fixed function of the chunk text
encode(chunkIdx) == IF chunkIdx = 0 THEN <<1, 0>> ELSE <<3, 4>>

\* the embeddings of step 7, one per chunk
buildEmbeddings(file, now) ==
    [i \in 1..file.chunks |->
        [id |-> documentIdOf(file) \o S_chunk \o <<Digit(i - 1)>>,
         document_id |-> documentIdOf(file), document_kind |-> file.kind,
         chunk_index |-> i - 1, vector |-> encode(i - 1), generated_at |-> now]]

\* indexDocument(filePath, opts); embed is (indexLevel is L2 or L3) && encodeFn
indexDocument(file, embed, nf, ef, mf, now) ==
    IF file.kind = NoValue
    THEN [success |-> FALSE, nodeFiles |-> nf, edgesFile |-> ef, embFiles |-> mf]
    ELSE LET node == extractNode(file, now)
             edges == extractEdges(file)
         IN  [success |-> TRUE, node |-> node, edges |-> edges,
              nodeFiles |-> writeNode(nf, node),
              edgesFile |-> IF Len(edges) > 0 THEN appendEdges(ef, edges) ELSE ef,
              embFiles |-> IF embed /\ file.chunks > 0
                           THEN writeEmbeddings(mf, buildEmbeddings(file, now))
                           ELSE mf]

\* the kinds createDefaultRegistry registers, over the kinds the model uses
DefaultRegistry == {K_entity, K_event, K_use_case}

\* the places of indexDocument where a collaborator may fail for one document
Faults == {"none", "read", "extract", "writeNode", "appendEdges", "encode"}

\* indexDocument(filePath, opts) when the collaborator named by fault fails.  The
\* file read is inside a try/catch; the extractor, the writer and the encoder are
\* awaited outside any, so their error leaves indexDocument as a rejection, after
\* the writes that came before it.
indexDocumentWith(fault, registry, file, embed, nf, ef, mf, now) ==
    LET skipped(reason) ==
            [threw |-> FALSE, success |-> FALSE, edge_count |-> 0, embedding_count |-> 0,
             skipped_reason |-> reason, nodeFiles |-> nf, edgesFile |-> ef, embFiles |-> mf]
        rejected(nf2, ef2) ==
            [threw |-> TRUE, nodeFiles |-> nf2, edgesFile |-> ef2, embFiles |-> mf]
    IN  IF fault = "read" THEN skipped("File error")
        ELSE IF file.kind = NoValue THEN skipped("No valid kind in front-matter")
        ELSE IF file.kind \notin registry THEN skipped("No extractor for kind")
        ELSE IF fault = "extract" THEN rejected(nf, ef)
        ELSE IF fault = "writeNode" THEN rejected(nf, ef)
        ELSE LET r == indexDocument(file, embed, nf, ef, mf, now)
             IN  IF fault = "appendEdges" /\ Len(r.edges) > 0
                 THEN rejected(r.nodeFiles, ef)
                 ELSE IF fault = "encode" /\ embed /\ file.chunks > 0
                 THEN rejected(r.nodeFiles, r.edgesFile)
                 ELSE [threw |-> FALSE, success |-> TRUE, node |-> r.node, edges |-> r.edges,
                       edge_count |-> Len(r.edges),
                       embedding_count |-> IF embed THEN file.chunks ELSE 0,
                       skipped_reason |-> "none",
                       nodeFiles |-> r.nodeFiles, edgesFile |-> r.edgesFile,
                       embFiles |-> r.embFiles]

-----------------------------------------------------------------------------
(* Artifact loader *)

\* the sequences that list every element of S once
Orders(S) ==
    {order \in [1..Cardinality(S) -> S] :
        \A i, j \in 1..Cardinality(S) : order[i] = order[j] => i = j}

\* loadAllNodes(indexPath), with the node files in the order the glob scans them
loadAllNodes(order) == [i \in 1..Len(order) |-> order[i].data]

\* loadEdges(indexPath): the lines of edges.jsonl that are not blank, parsed
loadEdges(file) == file.lines

RECURSIVE Flatten(_)
Flatten(lists) == IF lists = <<>> THEN <<>> ELSE Head(lists) \o Flatten(Tail(lists))

\* loadAllEmbeddings(indexPath), with the embedding files in glob order
loadAllEmbeddings(order) == Flatten([i \in 1..Len(order) |-> order[i].data])

\* createContainer(indexPath): the stores built from the artifact tree; reading
\* a manifest or an edges file that does not exist rejects
createContainer(manifest, nodeOrder, ef, embOrder) ==
    IF ~manifest.exists \/ ~ef.exists THEN [threw |-> TRUE]
    ELSE LET st == storeLoad(loadAllNodes(nodeOrder), loadEdges(ef))
             hasEmbeddings == manifest.data.stats.embeddings > 0
             embeddings == loadAllEmbeddings(embOrder)
         IN  [threw |-> st.threw, store |-> st,
              vectorStore |-> IF hasEmbeddings
                              THEN [present |-> TRUE,
                                    ids |-> [i \in 1..Len(embeddings) |-> embeddings[i].id],
                                    vectors |-> [i \in 1..Len(embeddings) |->
                                                    embeddings[i].vector]]
                              ELSE [present |-> FALSE, ids |-> <<>>, vectors |-> <<>>],
              encodeFn |-> hasEmbeddings]

-----------------------------------------------------------------------------
(* Impact query (reverse breadth-first search) *)

\* GraphStore.incomingEdges(nodeId): the in-edges in insertion order
incomingEdges(st, nodeId) ==
    IF ~graphHasNode(st.gn, nodeId) THEN <<>>
    ELSE SelectSeq([i \in 1..Len(st.ge) |-> st.ge[i].data], LAMBDA e : e.to_node = nodeId)

\* the callback reverseTraverse gives forEachInEdge: path is the path of the node
\* being expanded, edge an in-edge of it
reverseVisit(st, acc, edge, dist, path) ==
    IF edge.from_node \in acc.visited THEN acc
    ELSE LET newPath == Append(path, edge)
         IN  [visited |-> acc.visited \cup {edge.from_node},
              results |-> IF mapHas(st.nodes, edge.from_node)
                          THEN Append(acc.results,
                                      [node |-> mapGet(st.nodes, edge.from_node),
                                       path |-> newPath])
                          ELSE acc.results,
              queue |-> Append(acc.queue,
                               [id |-> edge.from_node, dist |-> dist + 1, path |-> newPath])]

RECURSIVE reverseIn(_, _, _, _, _, _)
reverseIn(st, es, acc, dist, path, i) ==
    IF i > Len(es) THEN acc
    ELSE reverseIn(st, es, reverseVisit(st, acc, es[i], dist, path), dist, path, i + 1)

\* the loop of reverseTraverse that expands past the depth: dist > depth stops
\* instead of dist >= depth
RECURSIVE reverseLoopPastDepth(_, _, _)
reverseLoopPastDepth(st, acc, depth) ==
    IF acc.queue = <<>> THEN acc
    ELSE LET item == Head(acc.queue)
             popped == [acc EXCEPT !.queue = Tail(@)]
         IN  IF item.dist > depth THEN reverseLoopPastDepth(st, popped, depth)
             ELSE reverseLoopPastDepth(st,
                      reverseIn(st, incomingEdges(st, item.id), popped, item.dist,
                                item.path, 1),
                      depth)

\* the while loop of reverseTraverse over the queue
RECURSIVE reverseLoop(_, _, _)
reverseLoop(st, acc, depth) ==
    IF acc.queue = <<>> THEN acc
    ELSE LET item == Head(acc.queue)
             popped == [acc EXCEPT !.queue = Tail(@)]
         IN  IF item.dist >= depth THEN reverseLoop(st, popped, depth)
             ELSE reverseLoop(st,
                      reverseIn(st, incomingEdges(st, item.id), popped, item.dist,
                                item.path, 1),
                      depth)

\* GraphStore.reverseTraverse(root, depth): [node, path] pairs
reverseTraverse(st, root, depth) ==
    IF ~graphHasNode(st.gn, root) THEN <<>>
    ELSE reverseLoop(st, [visited |-> {root}, results |-> <<>>,
                          queue |-> <<[id |-> root, dist |-> 0, path |-> <<>>]>>],
                     depth).results

S_modify_attribute == "modify_attribute"

\* IMPACT_DESC[edgeType] ?? `Connected via ${edgeType}`, over the edge types of the model
IMPACT_DESC(edgeType) ==
    CASE edgeType = T_ENTITY_RULE -> "Business rule validates this entity"
      [] edgeType = T_UC_APPLIES_RULE -> "Use case applies this rule"
      [] edgeType = T_UC_EXECUTES_CMD -> "Use case executes this command"
      [] edgeType = T_EMITS -> "Emits this event"
      [] edgeType = T_WIKI_LINK -> "References this artifact"
      [] edgeType = T_DOMAIN_RELATION -> "Has a domain relationship"
      [] edgeType = T_REQ_TRACES_TO -> "Requirement traces to this artifact"
      [] edgeType = T_VALIDATES -> "Validates this artifact via BDD scenarios"
      [] OTHER -> "Connected via"

\* describeImpact(edge, changeType)
describeImpact(edge, changeType) ==
    [desc |-> IMPACT_DESC(edge.edge_type), changeType |-> changeType]

\* Phase 1 with one record for each distinct source: the first edge of a source
\* stands for all its edges
directPhaseDistinct(st, directEdges, changeType) ==
    LET firsts == SelectSeq([i \in 1..Len(directEdges) |-> [i |-> i, e |-> directEdges[i]]],
                            LAMBDA x : /\ mapHas(st.nodes, x.e.from_node)
                                       /\ \A j \in 1..(x.i - 1) :
                                             directEdges[j].from_node # x.e.from_node)
    IN  [k \in 1..Len(firsts) |->
            [node_id |-> mapGet(st.nodes, firsts[k].e.from_node).id,
             kind |-> mapGet(st.nodes, firsts[k].e.from_node).kind,
             edge_type |-> firsts[k].e.edge_type,
             impact_description |-> describeImpact(firsts[k].e, changeType)]]

\* Phase 1 of impactQuery: one record for each incoming edge
RECURSIVE directPhase(_, _, _)
directPhase(st, directEdges, changeType) ==
    IF directEdges = <<>> THEN <<>>
    ELSE LET edge == Head(directEdges)
         IN  (IF mapHas(st.nodes, edge.from_node)
              THEN <<[node_id |-> mapGet(st.nodes, edge.from_node).id,
                      kind |-> mapGet(st.nodes, edge.from_node).kind,
                      edge_type |-> edge.edge_type,
                      impact_description |-> describeImpact(edge, changeType)]>>
              ELSE <<>>)
             \o directPhase(st, Tail(directEdges), changeType)

\* the transitive record whose path lists the nodes from the far end: the path
\* built by prepending each source instead of pushing it
transitiveRecordReversed(nodeId, result) ==
    [node_id |-> result.node.id,
     kind |-> result.node.kind,
     path |-> [i \in 1..Len(result.path) |->
                  result.path[Len(result.path) + 1 - i].from_node] \o <<nodeId>>,
     edge_types |-> [i \in 1..Len(result.path) |-> result.path[i].edge_type]]

\* the record Phase 2 pushes for one [node, pathEdges] pair
transitiveRecord(nodeId, result) ==
    [node_id |-> result.node.id,
     kind |-> result.node.kind,
     path |-> <<nodeId>> \o [i \in 1..Len(result.path) |-> result.path[i].from_node],
     edge_types |-> [i \in 1..Len(result.path) |-> result.path[i].edge_type]]

\* Phase 2 of impactQuery
RECURSIVE transitivePhase(_, _, _)
transitivePhase(nodeId, directIds, reverseResults) ==
    IF reverseResults = <<>> THEN <<>>
    ELSE (IF Head(reverseResults).node.id \in directIds
             \/ Head(reverseResults).node.id = nodeId
          THEN <<>>
          ELSE <<transitiveRecord(nodeId, Head(reverseResults))>>)
         \o transitivePhase(nodeId, directIds, Tail(reverseResults))

\* Phase 3 of impactQuery
RECURSIVE scenarioPhase(_, _, _)
scenarioPhase(st, es, allAffectedIds) ==
    IF es = <<>> THEN <<>>
    ELSE LET edge == Head(es).data
         IN  (IF /\ edge.edge_type = T_VALIDATES
                 /\ edge.to_node \in allAffectedIds
                 /\ mapHas(st.nodes, edge.from_node)
              THEN LET featureNode == mapGet(st.nodes, edge.from_node)
                   IN  <<[node_id |-> featureNode.id,
                          scenario_name |-> IF featureNode.title = NoValue
                                            THEN featureNode.id ELSE featureNode.title,
                          reason |-> edge.to_node]>>
              ELSE <<>>)
             \o scenarioPhase(st, Tail(es), allAffectedIds)

S_NODE_NOT_FOUND == "NODE_NOT_FOUND"

\* impactQuery(input, graphStore); changeType is <<>> and depth Unset when the
\* input leaves them out; a throw is the record of its error code alone
impactQuery(input, st) ==
    LET nodeId == input.nodeId
        changeType == IF input.changeType = <<>> THEN S_modify_attribute
                      ELSE input.changeType[1]
        depth == IF input.depth = Unset THEN 3 ELSE input.depth
    IN  IF ~graphHasNode(st.gn, nodeId)
        THEN [error |-> S_NODE_NOT_FOUND, nodeId |-> nodeId]
        ELSE LET directlyAffected == directPhase(st, incomingEdges(st, nodeId), changeType)
                 directIds == {directlyAffected[i].node_id : i \in 1..Len(directlyAffected)}
                 transitivelyAffected ==
                     IF depth > 1
                     THEN transitivePhase(nodeId, directIds, reverseTraverse(st, nodeId, depth))
                     ELSE <<>>
                 allAffectedIds ==
                     directIds
                     \cup {transitivelyAffected[i].node_id : i \in 1..Len(transitivelyAffected)}
                     \cup {nodeId}
             IN  [error |-> "none",
                  analyzedNode |-> IF mapHas(st.nodes, nodeId)
                                   THEN <<mapGet(st.nodes, nodeId)>> ELSE <<>>,
                  directlyAffected |-> directlyAffected,
                  transitivelyAffected |-> transitivelyAffected,
                  scenariosToRerun |-> scenarioPhase(st, st.ge, allAffectedIds),
                  totalDirectly |-> Len(directlyAffected),
                  totalTransitively |-> Len(transitivelyAffected)]
-----------------------------------------------------------------------------
(* Graph query *)

\* estimateDistance(nodeId, rootId, edges): the breadth-first distance over the
\* returned edges taken in both directions, 999 when nodeId is not reached
RECURSIVE estimateDistanceFrom(_, _, _, _)
estimateDistanceFrom(frontier, nodeId, E, dist) ==
    IF nodeId \in frontier THEN dist
    ELSE LET next == frontier
                     \cup {e.to_node : e \in {x \in E : x.from_node \in frontier}}
                     \cup {e.from_node : e \in {x \in E : x.to_node \in frontier}}
         IN  IF next = frontier THEN 999
             ELSE estimateDistanceFrom(next, nodeId, E, dist + 1)

\* estimateDistance over the returned edges taken from source to target only
RECURSIVE estimateDistanceForward(_, _, _, _)
estimateDistanceForward(frontier, nodeId, E, dist) ==
    IF nodeId \in frontier THEN dist
    ELSE LET next == frontier \cup {e.to_node : e \in {x \in E : x.from_node \in frontier}}
         IN  IF next = frontier THEN 999
             ELSE estimateDistanceForward(next, nodeId, E, dist + 1)

estimateDistanceDirected(nodeId, rootId, edges) ==
    estimateDistanceForward({rootId}, nodeId, Range(edges), 0)

estimateDistance(nodeId, rootId, edges) ==
    estimateDistanceFrom({rootId}, nodeId, Range(edges), 0)

\* scored.sort((a, b) => b.score - a.score), a stable sort; the score 1/(1+dist)
\* is kept as the pair of its numerator and denominator
RECURSIVE insertByScore(_, _)
insertByScore(sorted, x) ==
    IF sorted = <<>> THEN <<x>>
    ELSE IF Head(sorted).score.den <= x.score.den
         THEN <<Head(sorted)>> \o insertByScore(Tail(sorted), x)
         ELSE <<x>> \o sorted

RECURSIVE sortByScore(_)
sortByScore(list) ==
    IF list = <<>> THEN <<>>
    ELSE insertByScore(sortByScore(SubSeq(list, 1, Len(list) - 1)), list[Len(list)])

\* graphQuery(input, graphStore); depth is Unset, edgeTypes and includeKinds
\* NoValue, when the input leaves them out
graphQuery(input, st) ==
    LET rootNode == input.rootNode
        depth == IF input.depth = Unset THEN 2 ELSE input.depth
    IN  IF ~graphHasNode(st.gn, rootNode)
        THEN [error |-> S_NODE_NOT_FOUND, nodeId |-> rootNode]
        ELSE LET t == traverse(st, rootNode, depth, input.edgeTypes, input.respectLayers)
                 kept == IF input.includeKinds = NoValue THEN t.nodes
                         ELSE SelectSeq(t.nodes, LAMBDA n : n.kind \in Range(input.includeKinds))
                 others == SelectSeq(kept, LAMBDA n : n.id # rootNode)
                 scored == [i \in 1..Len(others) |->
                               [node_id |-> others[i].id,
                                score |-> [num |-> 1,
                                           den |-> 1 + estimateDistance(others[i].id,
                                                                        rootNode, t.edges)],
                                snippet |-> buildSnippet(others[i]),
                                match_source |-> "graph"]]
                 center == IF mapHas(st.nodes, rootNode)
                           THEN <<mapGet(st.nodes, rootNode)>> ELSE <<>>
             IN  [error |-> "none",
                  centerNode |-> center,
                  relatedNodes |-> sortByScore(scored),
                  edges |-> t.edges,
                  totalNodes |-> Len(scored) + Len(center),
                  totalEdges |-> Len(t.edges)]

-----------------------------------------------------------------------------
(* Coverage query *)

\* GraphStore.outgoingEdges(nodeId): the out-edges in insertion order
outgoingEdges(st, nodeId) ==
    IF ~graphHasNode(st.gn, nodeId) THEN <<>>
    ELSE SelectSeq([i \in 1..Len(st.ge) |-> st.ge[i].data], LAMBDA e : e.from_node = nodeId)

CoverageRule(name, edgeType) == [name |-> name, edge_type |-> edgeType]

\* COVERAGE_RULES[kind]; <<>> stands for the undefined of a kind without an entry
COVERAGE_RULES(kind) ==
    CASE kind = K_entity ->
            << CoverageRule("events", T_EMITS),
               CoverageRule("business_rules", T_ENTITY_RULE),
               CoverageRule("use_cases", T_WIKI_LINK) >>
      [] kind = K_command ->
            << CoverageRule("events", T_EMITS),
               CoverageRule("use_cases", T_UC_EXECUTES_CMD) >>
      [] kind = K_use_case ->
            << CoverageRule("commands", T_UC_EXECUTES_CMD),
               CoverageRule("rules", T_UC_APPLIES_RULE),
               CoverageRule("requirements", T_REQ_TRACES_TO) >>
      [] kind = K_business_rule ->
            << CoverageRule("entity", T_ENTITY_RULE),
               CoverageRule("use_cases", T_UC_APPLIES_RULE) >>
      [] kind = K_requirement ->
            << CoverageRule("traces", T_REQ_TRACES_TO) >>
      [] OTHER -> <<>>

\* a rules test that lets every kind through
hasCoverageRulesAlways(kind) == TRUE

\* the test of !rules, negated
hasCoverageRules(kind) == COVERAGE_RULES(kind) # <<>>

S_UNKNOWN_KIND == "UNKNOWN_KIND"

\* the inner loop of coverageQuery that pushes every other endpoint, seen or not
RECURSIVE foundIdsRepeated(_, _, _, _)
foundIdsRepeated(es, nodeId, edgeType, foundIds) ==
    IF es = <<>> THEN foundIds
    ELSE LET edge == Head(es)
             other == IF edge.from_node = nodeId THEN edge.to_node ELSE edge.from_node
         IN  foundIdsRepeated(Tail(es), nodeId, edgeType,
                 IF edge.edge_type = edgeType THEN Append(foundIds, other) ELSE foundIds)

\* the inner loop of coverageQuery over the incident edges
RECURSIVE foundIdsOf(_, _, _, _)
foundIdsOf(es, nodeId, edgeType, foundIds) ==
    IF es = <<>> THEN foundIds
    ELSE LET edge == Head(es)
             other == IF edge.from_node = nodeId THEN edge.to_node ELSE edge.from_node
         IN  foundIdsOf(Tail(es), nodeId, edgeType,
                 IF edge.edge_type = edgeType /\ other \notin Range(foundIds)
                 THEN Append(foundIds, other) ELSE foundIds)

\* Math.round((present / total) * 1000) / 10, in tenths of a percent
coveragePercent(present, total) ==
    IF total > 0 THEN (2000 * present + total) \div (2 * total) ELSE 0

\* coverageQuery(input, graphStore)
coverageQuery(input, st) ==
    LET nodeId == input.nodeId
    IN  IF ~graphHasNode(st.gn, nodeId) \/ ~mapHas(st.nodes, nodeId)
        THEN [error |-> S_NODE_NOT_FOUND, nodeId |-> nodeId]
        ELSE LET node == mapGet(st.nodes, nodeId)
             IN  IF ~hasCoverageRules(node.kind)
                 THEN [error |-> S_UNKNOWN_KIND, nodeId |-> nodeId]
                 ELSE LET rules == COVERAGE_RULES(node.kind)
                          allIncident == incomingEdges(st, nodeId) \o outgoingEdges(st, nodeId)
                          categories ==
                              [i \in 1..Len(rules) |->
                                  LET foundIds == foundIdsOf(allIncident, nodeId,
                                                             rules[i].edge_type, <<>>)
                                  IN  [name |-> rules[i].name,
                                       edge_type |-> rules[i].edge_type,
                                       status |-> IF Len(foundIds) > 0 THEN "covered"
                                                  ELSE "missing",
                                       found |-> foundIds]]
                          present == Cardinality({i \in 1..Len(rules) :
                                                     categories[i].status = "covered"})
                          missing == Cardinality({i \in 1..Len(rules) :
                                                     categories[i].status = "missing"})
                      IN  [error |-> "none",
                           analyzedNode |-> node,
                           categories |-> categories,
                           present |-> present,
                           missing |-> missing,
                           coveragePercent |-> coveragePercent(present, present + missing)]
-----------------------------------------------------------------------------
(* Extractors.  A document is [id, kind, layer, source_path, sections] and a
   section [heading, content], the content being the text of the section. *)

\* s.split(sep), for a non-empty separator
RECURSIVE Split(_, _)
Split(s, sep) ==
    IF Occurrences(s, sep) = {} THEN <<s>>
    ELSE <<SplitHead(s, sep)>> \o Split(SplitTail(s, sep), sep)

\* content.matchAll(/\[\[([^\]]+)\]\]/g) from position p: the captured groups in
\* order.  A match starts at an opening [[ that is followed by at least one
\* character other than ] and then by ]]; the search resumes after the match.
RECURSIVE wikiLinkMatches(_, _)
wikiLinkMatches(content, p) ==
    IF p + 1 > Len(content) THEN <<>>
    ELSE LET closes == {q \in (p + 2)..Len(content) : content[q] = "]"}
             q == CHOOSE c \in closes : \A d \in closes : c <= d
         IN  IF /\ content[p] = "[" /\ content[p + 1] = "["
                /\ closes # {}
                /\ q > p + 2
                /\ q + 1 <= Len(content) /\ content[q + 1] = "]"
             THEN <<SubSeq(content, p + 2, q - 1)>> \o wikiLinkMatches(content, q + 2)
             ELSE wikiLinkMatches(content, p + 1)

\* s.split(sep, 2): the first two of the parts
SplitTwo(s, sep) ==
    LET parts == Split(s, sep)
    IN  SubSeq(parts, 1, Min(2, Len(parts)))

\* the link of one match, in a one-element list; the empty list when the
\* trimmed text between the brackets is empty
wikiLinkOf(group) ==
    LET raw == Trim(group)
        hasDomain == Includes(raw, <<":", ":">>)
        domainParts == SplitTwo(raw, <<":", ":">>)
        rest == IF hasDomain THEN Trim(domainParts[2]) ELSE raw
        hasAlias == Includes(rest, <<"|">>)
        aliasParts == SplitTwo(rest, <<"|">>)
    IN  IF raw = <<>> THEN <<>>
        ELSE <<[target |-> IF hasAlias THEN Trim(aliasParts[1]) ELSE rest,
                domain |-> IF hasDomain THEN Trim(domainParts[1]) ELSE NoValue,
                alias |-> IF hasAlias THEN Trim(aliasParts[2]) ELSE NoValue]>>

\* the links of the matches, in order
RECURSIVE wikiLinksOf(_)
wikiLinksOf(groups) ==
    IF groups = <<>> THEN <<>>
    ELSE wikiLinkOf(Head(groups)) \o wikiLinksOf(Tail(groups))

\* extractWikiLinks(content)
extractWikiLinks(content) == wikiLinksOf(wikiLinkMatches(content, 1))

\* findSection(sections, ...names): <<>> for null
findSection(sections, names) ==
    LET targets == {ToLowerCase(n) : n \in names}
        hits == SelectSeq(sections, LAMBDA s : ToLowerCase(s.heading) \in targets)
    IN  IF hits = <<>> THEN <<>> ELSE <<Head(hits)>>

\* line.replace(/^\||\|$/g, "")
stripPipes(line) ==
    LET a == IF line # <<>> /\ Head(line) = "|" THEN Tail(line) ELSE line
    IN  IF a # <<>> /\ a[Len(a)] = "|" THEN SubSeq(a, 1, Len(a) - 1) ELSE a

\* parseTableRows(content): a row is the sequence of its [header, value] pairs in
\* header order (the headers of the model's tables are distinct and hold no
\* back-tick for the parser to strip)
parseTableRows(content) ==
    LET split == Split(Trim(content), <<"\n">>)
        lines == SelectSeq([i \in 1..Len(split) |-> Trim(split[i])],
                           LAMBDA l : StartsWith(l, <<"|">>))
    IN  IF Len(lines) < 2 THEN <<>>
        ELSE LET rawHeaders == Split(stripPipes(lines[1]), <<"|">>)
                 headers == [i \in 1..Len(rawHeaders) |-> Trim(rawHeaders[i])]
                 cellsOf(line) == LET raw == Split(stripPipes(line), <<"|">>)
                                  IN  [i \in 1..Len(raw) |-> Trim(raw[i])]
                 body == SelectSeq(SubSeq(lines, 3, Len(lines)),
                                   LAMBDA l : Len(cellsOf(l)) >= Len(headers))
             IN  [r \in 1..Len(body) |->
                     [i \in 1..Len(headers) |->
                         [header |-> headers[i], value |-> cellsOf(body[r])[i]]]]

\* the prefixMap of resolveWikiLinkToNodeId, in order
prefixMap ==
    << <<<<"E", "V", "T", "-">>, <<"E", "v", "e", "n", "t">>>>,
       <<<<"B", "R", "-">>, <<"B", "R">>>>,
       <<<<"B", "P", "-">>, <<"B", "P">>>>,
       <<<<"X", "P", "-">>, <<"X", "P">>>>,
       <<<<"C", "M", "D", "-">>, <<"C", "M", "D">>>>,
       <<<<"Q", "R", "Y", "-">>, <<"Q", "R", "Y">>>>,
       <<<<"U", "C", "-">>, <<"U", "C">>>>,
       <<<<"P", "R", "O", "C", "-">>, <<"P", "R", "O", "C">>>>,
       <<<<"R", "E", "Q", "-">>, <<"R", "E", "Q">>>>,
       <<<<"O", "B", "J", "-">>, <<"O", "B", "J">>>>,
       <<<<"A", "D", "R", "-">>, <<"A", "D", "R">>>>,
       <<<<"P", "R", "D", "-">>, <<"P", "R", "D">>>>,
       <<<<"U", "I", "-">>, <<"U", "I", "V", "i", "e", "w">>>> >>

\* resolveWikiLinkToNodeId(link)
resolveWikiLinkToNodeId(link) ==
    LET hits == SelectSeq(prefixMap, LAMBDA p : StartsWith(link.target, p[1]))
    IN  IF hits # <<>> THEN Head(hits)[2] \o <<":">> \o link.target
        ELSE <<"E", "n", "t", "i", "t", "y", ":">> \o link.target

\* isEntityTarget(target); specPrefixes holds the prefixes of prefixMap
isEntityTarget(target) ==
    ~\E i \in 1..Len(prefixMap) : StartsWith(target, prefixMap[i][1])

\* LAYER_NUMERIC[layer]
LAYER_NUMERIC(layer) ==
    CASE layer = L_requirements -> 0
      [] layer = L_domain -> 1
      [] layer = L_behavior -> 2
      [] layer = L_experience -> 3
      [] layer = L_verification -> 4

\* isLayerViolation(originLayer, destinationLayer)
isLayerViolation(originLayer, destinationLayer) ==
    IF originLayer = L_requirements THEN FALSE
    ELSE LAYER_NUMERIC(originLayer) < LAYER_NUMERIC(destinationLayer)

\* the layerMap of guessLayerFromNodeId
layerMap ==
    << <<<<"E", "n", "t", "i", "t", "y">>, L_domain>>,
       <<<<"E", "v", "e", "n", "t">>, L_domain>>,
       <<<<"B", "R">>, L_domain>>,
       <<<<"B", "P">>, L_behavior>>,
       <<<<"X", "P">>, L_behavior>>,
       <<<<"C", "M", "D">>, L_behavior>>,
       <<<<"Q", "R", "Y">>, L_behavior>>,
       <<<<"P", "R", "O", "C">>, L_behavior>>,
       <<<<"U", "C">>, L_behavior>>,
       <<<<"U", "I", "V", "i", "e", "w">>, L_experience>>,
       <<<<"U", "I", "C", "o", "m", "p">>, L_experience>>,
       <<<<"R", "E", "Q">>, L_verification>>,
       <<<<"O", "B", "J">>, L_requirements>>,
       <<<<"P", "R", "D">>, L_requirements>>,
       <<<<"A", "D", "R">>, L_requirements>>,
       <<<<"G", "L", "O", "S", "S">>, L_domain>> >>

\* guessLayerFromNodeId(nodeId): NoValue for null
guessLayerFromNodeId(nodeId) ==
    LET prefix == IF Occurrences(nodeId, <<":">>) # {} THEN SplitHead(nodeId, <<":">>)
                  ELSE <<>>
        hits == SelectSeq(layerMap, LAMBDA p : p[1] = prefix)
    IN  IF hits # <<>> THEN Head(hits)[2] ELSE NoValue

\* document.sections.map((s) => s.content).join("\n")
RECURSIVE fullContent(_)
fullContent(sections) ==
    IF sections = <<>> THEN <<>>
    ELSE IF Len(sections) = 1 THEN Head(sections).content
    ELSE Head(sections).content \o <<"\n">> \o fullContent(Tail(sections))

\* the loop of buildWikiLinkEdges over the links
RECURSIVE wikiLinkLoop(_, _, _, _)
wikiLinkLoop(links, fromNodeId, fromLayer, seen) ==
    IF links = <<>> THEN <<>>
    ELSE LET toNodeId == resolveWikiLinkToNodeId(Head(links))
             destLayer == guessLayerFromNodeId(toNodeId)
             violation == IF destLayer # NoValue THEN isLayerViolation(fromLayer, destLayer)
                          ELSE FALSE
         IN  IF toNodeId \in seen
             THEN wikiLinkLoop(Tail(links), fromNodeId, fromLayer, seen)
             ELSE <<GraphEdge(fromNodeId, toNodeId, T_WIKI_LINK, violation)>>
                  \o wikiLinkLoop(Tail(links), fromNodeId, fromLayer, seen \cup {toNodeId})

\* buildWikiLinkEdges(document, fromNodeId, fromLayer)
buildWikiLinkEdges(document, fromNodeId, fromLayer) ==
    wikiLinkLoop(extractWikiLinks(fullContent(document.sections)), fromNodeId, fromLayer, {})

\* the duplicate filter keyed by the two endpoints alone
RECURSIVE deduplicateEdgesByEndpoints(_)
deduplicateEdgesByEndpoints(edges) ==
    IF edges = <<>> THEN <<>>
    ELSE deduplicateEdgesByEndpoints(SubSeq(edges, 1, Len(edges) - 1))
         \o (IF \E i \in 1..(Len(edges) - 1) :
                    /\ edges[i].from_node = edges[Len(edges)].from_node
                    /\ edges[i].to_node = edges[Len(edges)].to_node
             THEN <<>> ELSE <<edges[Len(edges)]>>)

\* deduplicateEdges(edges)
deduplicateEdges(edges) == uniqueEdges(edges, {})

\* the edges an extractor pushes for links, each with layer_violation: false
linkEdges(links, nodeId, edgeType) ==
    [i \in 1..Len(links) |->
        GraphEdge(nodeId, resolveWikiLinkToNodeId(links[i]), edgeType, FALSE)]

\* the typed edges an extractor pushes for the links of a section whose target
\* starts with one of prefixes
typedEdges(section, nodeId, edgeType, prefixes) ==
    IF section = <<>> THEN <<>>
    ELSE linkEdges(SelectSeq(extractWikiLinks(section[1].content),
                             LAMBDA l : \E p \in prefixes : StartsWith(l.target, p)),
                   nodeId, edgeType)

\* the ENTITY_RULE edges of the rule and policy extractors: one for each link of
\* the declaration section to an entity target
entityRuleEdges(section, nodeId) ==
    IF section = <<>> THEN <<>>
    ELSE linkEdges(SelectSeq(extractWikiLinks(section[1].content),
                             LAMBDA l : isEntityTarget(l.target)),
                   nodeId, T_ENTITY_RULE)

\* the DOMAIN_RELATION edges of EntityExtractor: one for each row of the
\* relations table with a wiki link, to the first link of its first linking cell
domainRelationEdges(section, nodeId) ==
    IF section = <<>> THEN <<>>
    ELSE LET rows == parseTableRows(section[1].content)
             linking == SelectSeq(rows, LAMBDA row :
                            \E i \in 1..Len(row) : extractWikiLinks(row[i].value) # <<>>)
             target(row) ==
                 LET i == CHOOSE k \in 1..Len(row) :
                              /\ extractWikiLinks(row[k].value) # <<>>
                              /\ \A j \in 1..(k - 1) : extractWikiLinks(row[j].value) = <<>>
                 IN  resolveWikiLinkToNodeId(extractWikiLinks(row[i].value)[1])
         IN  [r \in 1..Len(linking) |->
                 GraphEdge(nodeId, target(linking[r]), T_DOMAIN_RELATION, FALSE)]

H_Relations ==
    {<<"R", "e", "l", "a", "c", "i", "o", "n", "e", "s">>,
     <<"R", "e", "l", "a", "t", "i", "o", "n", "s">>,
     <<"R", "e", "l", "a", "t", "i", "o", "n", "s", "h", "i", "p", "s">>}

H_LifecycleEvents ==
    {<<"e", "v", "e", "n", "t", "o", "s", " ", "d", "e", "l", " ", "c", "i", "c", "l", "o", " ", "d", "e", " ", "v", "i", "d", "a">>,
     <<"l", "i", "f", "e", "c", "y", "c", "l", "e", " ", "e", "v", "e", "n", "t", "s">>}

H_AppliedRules ==
    {<<"R", "e", "g", "l", "a", "s", " ", "A", "p", "l", "i", "c", "a", "d", "a", "s">>,
     <<"A", "p", "p", "l", "i", "e", "d", " ", "R", "u", "l", "e", "s">>,
     <<"R", "u", "l", "e", "s", " ", "A", "p", "p", "l", "i", "e", "d">>}

H_CommandsExecuted ==
    {<<"C", "o", "m", "a", "n", "d", "o", "s", " ", "E", "j", "e", "c", "u", "t", "a", "d", "o", "s">>,
     <<"C", "o", "m", "m", "a", "n", "d", "s", " ", "E", "x", "e", "c", "u", "t", "e", "d">>}

H_Declaration ==
    {<<"D", "e", "c", "l", "a", "r", "a", "t", "i", "o", "n">>}

H_Postconditions ==
    {<<"P", "o", "s", "t", "c", "o", "n", "d", "i", "t", "i", "o", "n", "s">>,
     <<"P", "o", "s", "t", "c", "o", "n", "d", "i", "c", "i", "o", "n", "e", "s">>}

\* the EMITS edges of EntityExtractor, over every lifecycle-events section
RECURSIVE lifecycleEdges(_, _)
lifecycleEdges(sections, nodeId) ==
    IF sections = <<>> THEN <<>>
    ELSE (IF ToLowerCase(Head(sections).heading) \in H_LifecycleEvents
          THEN typedEdges(<<Head(sections)>>, nodeId, T_EMITS, {<<"E", "V", "T", "-">>})
          ELSE <<>>)
         \o lifecycleEdges(Tail(sections), nodeId)

\* the edges an extractor collects before it removes the duplicates
collectEdges(document) ==
    LET nodeId == makeNodeId(document.kind, document.id)
        wiki == buildWikiLinkEdges(document, nodeId, document.layer)
    IN  CASE document.kind = K_entity ->
                wiki \o domainRelationEdges(findSection(document.sections, H_Relations), nodeId)
                     \o lifecycleEdges(document.sections, nodeId)
          [] document.kind = K_use_case ->
                wiki \o typedEdges(findSection(document.sections, H_AppliedRules), nodeId,
                                   T_UC_APPLIES_RULE,
                                   {<<"B", "R", "-">>, <<"B", "P", "-">>,
                                    <<"X", "P", "-">>})
                     \o typedEdges(findSection(document.sections, H_CommandsExecuted), nodeId,
                                   T_UC_EXECUTES_CMD, {<<"C", "M", "D", "-">>})
                     \o typedEdges(<<[heading |-> <<>>,
                                      content |-> fullContent(document.sections)]>>,
                                   nodeId, T_UC_STORY, {<<"O", "B", "J", "-">>})
          [] document.kind = K_command ->
                wiki \o typedEdges(findSection(document.sections, H_Postconditions), nodeId,
                                   T_EMITS, {<<"E", "V", "T", "-">>})
          [] document.kind \in {K_business_rule, KDD_KINDS[4], KDD_KINDS[5]} ->
                wiki \o entityRuleEdges(findSection(document.sections, H_Declaration), nodeId)
          [] OTHER -> wiki

\* registry.get(kind).extractEdges(document)
extractEdgesOf(document) == deduplicateEdges(collectEdges(document))

\* registry.get(kind).extractNode(document), stamped with the time of the call
extractNodeOf(document, now) ==
    GraphNode(document.kind, document.id, document.layer, NoValue, "h", now)

-----------------------------------------------------------------------------
(* Chunking.  A chunk is [chunk_id, document_id, section_heading, content,
   char_offset]; its context text, the identity preface followed by content,
   is left out. *)

\* EMBEDDABLE_SECTIONS[kind], the headings written in ASCII
EMBEDDABLE_SECTIONS(kind) ==
    LET description == <<"d", "e", "s", "c", "r", "i", "p", "t", "i", "o", "n">>
        declaration == <<"d", "e", "c", "l", "a", "r", "a", "t", "i", "o", "n">>
        purpose == <<"p", "u", "r", "p", "o", "s", "e">>
    IN  CASE kind = K_entity -> {description}
          [] kind = K_event -> {}
          [] kind = K_business_rule ->
                {declaration, <<"w", "h", "e", "n", " ", "a", "p", "p", "l", "i", "e", "s">>}
          [] kind = KDD_KINDS[4] -> {declaration}
          [] kind = KDD_KINDS[5] -> {purpose, declaration}
          [] kind = K_command -> {purpose}
          [] kind = KDD_KINDS[7] -> {purpose}
          [] kind = KDD_KINDS[8] ->
                {<<"p", "a", "r", "t", "i", "c", "i", "p", "a", "n", "t", "s">>,
                 <<"s", "t", "e", "p", "s">>}
          [] kind = K_use_case ->
                {description, <<"m", "a", "i", "n", " ", "f", "l", "o", "w">>}
          [] kind = KDD_KINDS[10] ->
                {description, <<"b", "e", "h", "a", "v", "i", "o", "r">>}
          [] kind = KDD_KINDS[11] -> {description}
          [] kind = K_requirement -> {description}
          [] kind = KDD_KINDS[13] -> {<<"o", "b", "j", "e", "c", "t", "i", "v", "e">>}
          [] kind = KDD_KINDS[14] ->
                {<<"p", "r", "o", "b", "l", "e", "m", " ", "/", " ", "o", "p", "p", "o",
                   "r", "t", "u", "n", "i", "t", "y">>}
          [] kind = KDD_KINDS[15] ->
                {<<"c", "o", "n", "t", "e", "x", "t">>,
                 <<"d", "e", "c", "i", "s", "i", "o", "n">>}
          [] kind = KDD_KINDS[16] -> {<<"d", "e", "f", "i", "n", "i", "t", "i", "o", "n">>}
          [] OTHER -> {}

\* embeddableSections(kind)
embeddableSections(kind) == EMBEDDABLE_SECTIONS(kind)

\* parts.join(sep)
RECURSIVE Join(_, _)
Join(parts, sep) ==
    IF parts = <<>> THEN <<>>
    ELSE IF Len(parts) = 1 THEN parts[1]
    ELSE parts[1] \o sep \o Join(Tail(parts), sep)

\* String(n) for a natural number
RECURSIVE NumberToString(_)
NumberToString(n) ==
    LET digits == <<"0", "1", "2", "3", "4", "5", "6", "7", "8", "9">>
    IN  IF n < 10 THEN <<digits[n + 1]>>
        ELSE NumberToString(n \div 10) \o <<digits[(n % 10) + 1]>>

\* text.split(/(?<=\.)\s+/) from position i, the current piece starting at start:
\* a run of white space is a separator when a full stop stands right before it
RECURSIVE splitAfterStops(_, _, _)
splitAfterStops(text, start, i) ==
    IF i > Len(text) THEN <<SubSeq(text, start, Len(text))>>
    ELSE IF i > 1 /\ text[i - 1] = "." /\ text[i] \in WhiteSpace
    THEN LET rest == {j \in i..Len(text) : text[j] \notin WhiteSpace}
             next == IF rest = {} THEN Len(text) + 1
                     ELSE CHOOSE j \in rest : \A k \in rest : j <= k
         IN  <<SubSeq(text, start, i - 1)>> \o splitAfterStops(text, next, next)
    ELSE splitAfterStops(text, start, i + 1)

\* splitSentences(text)
splitSentences(text) ==
    LET pieces == splitAfterStops(text, 1, 1)
    IN  SelectSeq([i \in 1..Len(pieces) |-> Trim(pieces[i])], LAMBDA s : s # <<>>)

\* the sentence loop of splitParagraphs; buf is [results, sentBuf, sentLen,
\* sentOffset]
RECURSIVE sentenceLoop(_, _, _, _)
sentenceLoop(buf, sentences, maxChars, charPos) ==
    IF sentences = <<>> THEN buf
    ELSE LET sent == Head(sentences)
             flushed == IF buf.sentLen + Len(sent) + 1 > maxChars /\ buf.sentBuf # <<>>
                        THEN [results |-> Append(buf.results,
                                                 [offset |-> buf.sentOffset,
                                                  text |-> Join(buf.sentBuf, <<" ">>)]),
                              sentBuf |-> <<>>, sentLen |-> 0, sentOffset |-> charPos]
                        ELSE buf
         IN  sentenceLoop([flushed EXCEPT !.sentBuf = Append(@, sent),
                                          !.sentLen = @ + Len(sent) + 1],
                          Tail(sentences), maxChars, charPos)

\* the body of the paragraph loop of splitParagraphs; acc is [results,
\* currentParts, currentLen, currentOffset, charPos]
paragraphStep(acc, rawPara, maxChars, overlap) ==
    LET para == Trim(rawPara)
        paraLen == Len(para)
        lastPart == acc.currentParts[Len(acc.currentParts)]
        emitted == [acc EXCEPT !.results =
                        Append(@, [offset |-> acc.currentOffset,
                                   text |-> Join(acc.currentParts, <<"\n", "\n">>)])]
        a1 == IF acc.currentLen + paraLen + 2 > maxChars /\ acc.currentParts # <<>>
              THEN IF overlap > 0 /\ Len(lastPart) <= overlap
                   THEN [emitted EXCEPT !.currentParts = <<lastPart>>,
                                        !.currentLen = Len(lastPart),
                                        !.currentOffset = acc.charPos - Len(lastPart) - 2]
                   ELSE [emitted EXCEPT !.currentParts = <<>>,
                                        !.currentLen = 0,
                                        !.currentOffset = acc.charPos]
              ELSE acc
        packed == sentenceLoop([results |-> a1.results, sentBuf |-> <<>>, sentLen |-> 0,
                                sentOffset |-> a1.charPos],
                               splitSentences(para), maxChars, a1.charPos)
        a2 == IF paraLen > maxChars /\ a1.currentParts = <<>>
              THEN IF packed.sentBuf # <<>>
                   THEN [a1 EXCEPT !.results = packed.results,
                                   !.currentParts = packed.sentBuf,
                                   !.currentLen = packed.sentLen,
                                   !.currentOffset = packed.sentOffset]
                   ELSE [a1 EXCEPT !.results = packed.results]
              ELSE [a1 EXCEPT !.currentOffset = IF a1.currentParts = <<>> THEN a1.charPos
                                                ELSE @,
                              !.currentParts = Append(@, para),
                              !.currentLen = @ + paraLen + 2]
    IN  IF para = <<>> THEN [acc EXCEPT !.charPos = @ + 2]
        ELSE [a2 EXCEPT !.charPos = @ + paraLen + 2]

\* the paragraph loop of splitParagraphs
RECURSIVE paragraphLoop(_, _, _, _)
paragraphLoop(acc, paragraphs, maxChars, overlap) ==
    IF paragraphs = <<>> THEN acc
    ELSE paragraphLoop(paragraphStep(acc, Head(paragraphs), maxChars, overlap),
                       Tail(paragraphs), maxChars, overlap)

\* splitParagraphs(content, maxChars, overlap): the list of [offset, text]
splitParagraphs(content, maxChars, overlap) ==
    LET acc == paragraphLoop([results |-> <<>>, currentParts |-> <<>>, currentLen |-> 0,
                              currentOffset |-> 0, charPos |-> 0],
                             Split(content, <<"\n", "\n">>), maxChars, overlap)
    IN  IF acc.currentParts # <<>>
        THEN Append(acc.results, [offset |-> acc.currentOffset,
                                  text |-> Join(acc.currentParts, <<"\n", "\n">>)])
        ELSE acc.results

\* the section loop of chunkDocument
RECURSIVE chunkSections(_, _, _, _, _)
chunkSections(chunks, sections, document, maxChunkChars, overlapChars) ==
    IF sections = <<>> THEN chunks
    ELSE LET section == Head(sections)
             paragraphs == splitParagraphs(section.content, maxChunkChars, overlapChars)
             added == [i \in 1..Len(paragraphs) |->
                          [chunk_id |-> document.id \o S_chunk
                                           \o NumberToString(Len(chunks) + i - 1),
                           document_id |-> document.id,
                           section_heading |-> section.heading,
                           content |-> paragraphs[i].text,
                           char_offset |-> paragraphs[i].offset]]
         IN  IF \/ ToLowerCase(section.heading) \notin embeddableSections(document.kind)
                \/ Trim(section.content) = <<>>
             THEN chunkSections(chunks, Tail(sections), document, maxChunkChars,
                                overlapChars)
             ELSE chunkSections(chunks \o added, Tail(sections), document, maxChunkChars,
                                overlapChars)

\* chunkDocument(document, maxChunkChars, overlapChars)
chunkDocument(document, maxChunkChars, overlapChars) ==
    IF embeddableSections(document.kind) = {} THEN <<>>
    ELSE chunkSections(<<>>, document.sections, document, maxChunkChars, overlapChars)
-----------------------------------------------------------------------------
(* Violations query *)

\* findViolations()
findViolations(st) ==
    SelectSeq([i \in 1..Len(st.ge) |-> st.ge[i].data], LAMBDA e : e.layer_violation)

\* the filter of violationsQuery on one edge; a missing node matches nothing
violationKept(edge, m, includeKinds, includeLayers) ==
    LET has(id) == mapHas(m, id)
        kindOk == includeKinds = NoValue
                    \/ (has(edge.from_node)
                        /\ mapGet(m, edge.from_node).kind \in Range(includeKinds))
                    \/ (has(edge.to_node)
                        /\ mapGet(m, edge.to_node).kind \in Range(includeKinds))
        layerOk == includeLayers = NoValue
                    \/ (has(edge.from_node)
                        /\ mapGet(m, edge.from_node).layer \in Range(includeLayers))
                    \/ (has(edge.to_node)
                        /\ mapGet(m, edge.to_node).layer \in Range(includeLayers))
    IN  kindOk /\ layerOk

\* Math.round((violations / total) * 10000) / 100, in hundredths of a percent
violationRate(violations, total) ==
    IF total > 0 THEN (20000 * violations + total) \div (2 * total) ELSE 0

\* violationsQuery(input, graphStore)
violationsQuery(input, st) ==
    LET total == Len(st.ge)
        violationEdges == SelectSeq(findViolations(st),
                                    LAMBDA e : violationKept(e, st.nodes, input.includeKinds,
                                                             input.includeLayers))
        layerOf(id) == IF mapHas(st.nodes, id) THEN mapGet(st.nodes, id).layer ELSE L_domain
        violations == [i \in 1..Len(violationEdges) |->
                          [from_node |-> violationEdges[i].from_node,
                           to_node |-> violationEdges[i].to_node,
                           from_layer |-> layerOf(violationEdges[i].from_node),
                           to_layer |-> layerOf(violationEdges[i].to_node),
                           edge_type |-> violationEdges[i].edge_type]]
    IN  [error |-> "none",
         violations |-> violations,
         totalViolations |-> Len(violations),
         totalEdgesAnalyzed |-> total,
         violationRate |-> violationRate(Len(violations), total)]

-----------------------------------------------------------------------------
(* The calls a query makes on its collaborators.  A call list names the methods
   in the order of their first call. *)

\* the graph store after one of its read methods returns, emptied by traverse
storeAfterReadClearing(st, method) ==
    IF method = "graphStore.traverse"
    THEN [st EXCEPT !.gn = <<>>, !.ge = <<>>, !.nodes = <<>>]
    ELSE st

\* the graph store after one of its read methods returns: traverse,
\* reverseTraverse, textSearch, getNode, hasNode, incomingEdges, outgoingEdges,
\* allEdges and findViolations fill arrays and sets of their own and assign no
\* field of the store
storeAfterRead(st, method) == st

\* the vector store after search returns: scored is sorted, ids and vectors are
\* read
vectorAfterSearch(vs) == vs

\* the graph store after the calls of a query, in order
RECURSIVE storeAfterCalls(_, _)
storeAfterCalls(st, calls) ==
    IF calls = <<>> THEN st
    ELSE storeAfterCalls(storeAfterRead(st, Head(calls)), Tail(calls))

\* the number of calls hybridSearch makes to encodeFn
hybridSearchEncodes(input, vs, enc) ==
    IF queryTooShort(input.queryText) THEN 0
    ELSE IF semanticAvailable(vs, enc) THEN 1 ELSE 0

\* the number of calls semanticQuery makes to encodeFn
semanticQueryEncodes(input) ==
    IF queryTooShort(input.queryText) THEN 0 ELSE 1

graphQueryCalls(result) ==
    IF result.error # "none" THEN <<"graphStore.hasNode">>
    ELSE <<"graphStore.hasNode", "graphStore.traverse", "graphStore.getNode">>

impactQueryCalls(input, result) ==
    IF result.error # "none" THEN <<"graphStore.hasNode">>
    ELSE <<"graphStore.hasNode", "graphStore.getNode", "graphStore.incomingEdges">>
            \o (IF input.depth = Unset \/ input.depth > 1
                THEN <<"graphStore.reverseTraverse">> ELSE <<>>)
            \o <<"graphStore.allEdges">>

coverageQueryCalls(result) ==
    IF result.error = S_NODE_NOT_FOUND THEN <<"graphStore.hasNode">>
    ELSE IF result.error # "none" THEN <<"graphStore.hasNode", "graphStore.getNode">>
    ELSE <<"graphStore.hasNode", "graphStore.getNode", "graphStore.incomingEdges",
           "graphStore.outgoingEdges">>

\* getNode is called for the endpoints of every violating edge, by the filter or
\* by the map
violationsQueryCalls(st) ==
    <<"graphStore.allEdges", "graphStore.findViolations">>
        \o (IF findViolations(st) # <<>> THEN <<"graphStore.getNode">> ELSE <<>>)
-----------------------------------------------------------------------------
(* The construction state, shared by every specification *)

Init ==
    /\ graphNodes = <<>>
    /\ graphEdges = <<>>
    /\ nodes = <<>>
    /\ last = [op |-> "new"]
    /\ vectorStore = [present |-> FALSE, ids |-> <<>>, vectors |-> <<>>]
    /\ encodeFn = FALSE
    /\ nodeFiles = {}
    /\ edgesFile = NoFile
    /\ embFiles = {}
    /\ clock = 0
    /\ manifestFile = [exists |-> FALSE]
    /\ cli = [pc |-> "idle", invocation |-> 0]

-----------------------------------------------------------------------------
(* Specification SpecStore: any sequence of load, addNode and addEdge *)

MaxEdges == 2

S_Ab == <<"A", "b">>
S_UC1 == <<"U", "C", "-", "1">>
S_EVTx == <<"E", "V", "T", "-", "x">>

N_A == GraphNode(K_entity, S_Ab, L_domain, NoValue, "h1", 0)
N_A2 == GraphNode(K_entity, S_Ab, L_domain, NoValue, "h2", 1)
N_B == GraphNode(K_use_case, S_UC1, L_behavior, NoValue, "h3", 0)
N_C == GraphNode(K_event, S_EVTx, L_domain, NoValue, "h4", 0)

StoreNodes == {N_A, N_A2, N_B, N_C}

StoreNodeLists ==
    {<<N_A>>, <<N_A, N_B>>, <<N_B, N_A2, N_C>>, <<N_A, N_B, N_A2>>}

StoreEdges ==
    {GraphEdge(N_A.id, N_B.id, T_WIKI_LINK, TRUE),
     GraphEdge(N_A.id, N_B.id, T_WIKI_LINK, FALSE),
     GraphEdge(N_A.id, N_B.id, T_EMITS, FALSE),
     GraphEdge(N_B.id, N_A.id, T_WIKI_LINK, FALSE),
     GraphEdge(N_A.id, N_A.id, T_WIKI_LINK, FALSE),
     GraphEdge(N_A.id, N_C.id, T_EMITS, FALSE),
     GraphEdge(N_C.id, N_B.id, T_WIKI_LINK, TRUE)}

StoreLoadEdges ==
    {GraphEdge(N_A.id, N_B.id, T_WIKI_LINK, TRUE),
     GraphEdge(N_C.id, N_B.id, T_WIKI_LINK, TRUE)}

SeqsUpTo(S, n) == UNION {[1..k -> S] : k \in 0..n}

\* (from_node, to_node, edge_type) of an edge
Triple(edge) == <<edge.from_node, edge.to_node, edge.edge_type>>

storedIds == {nodes[i].id : i \in 1..Len(nodes)}
storedTriples == {Triple(graphEdges[i].data) : i \in 1..Len(graphEdges)}

Load(ns, es) ==
    LET st == storeLoad(ns, es)
    IN  /\ graphNodes' = st.gn
        /\ graphEdges' = st.ge
        /\ nodes' = st.nodes
        /\ last' = [op |-> "load", threw |-> st.threw,
                    offered |-> {Triple(es[i]) : i \in 1..Len(es)},
                    eligible |-> {Triple(es[i]) : i \in
                                    {j \in 1..Len(es) :
                                        /\ \E k \in 1..Len(ns) : ns[k].id = es[j].from_node
                                        /\ \E k \in 1..Len(ns) : ns[k].id = es[j].to_node}}]
        /\ UNCHANGED <<vectorVars, diskVars, cliVars>>

AddNode(node) ==
    LET st == storeAddNode(theStore, node)
    IN  /\ graphNodes' = st.gn
        /\ graphEdges' = st.ge
        /\ nodes' = st.nodes
        /\ last' = [op |-> "addNode", prevNodeCount |-> nodeCount,
                    prevEdgeCount |-> edgeCount]
        /\ UNCHANGED <<vectorVars, diskVars, cliVars>>

AddEdge(edge) ==
    LET st == storeAddEdge(theStore, edge)
    IN  /\ edgeCount < MaxEdges
        /\ graphNodes' = st.gn
        /\ graphEdges' = st.ge
        /\ nodes' = st.nodes
        /\ last' = [op |-> "addEdge", prevNodeCount |-> nodeCount,
                    prevEdgeCount |-> edgeCount,
                    missing |-> ~(edge.from_node \in storedIds /\ edge.to_node \in storedIds),
                    present |-> Triple(edge) \in storedTriples]
        /\ UNCHANGED <<vectorVars, diskVars, cliVars>>

StoreLoad == \E ns \in StoreNodeLists, es \in SeqsUpTo(StoreLoadEdges, MaxEdges) : Load(ns, es)
StoreAddNode == \E node \in StoreNodes : AddNode(node)
StoreAddEdge == \E edge \in StoreEdges : AddEdge(edge)

NextStore == StoreLoad \/ StoreAddNode \/ StoreAddEdge

SpecStore == Init /\ [][NextStore]_vars

\* C1: every stored edge has both endpoints among the stored nodes, no two stored
\* edges share (from_node, to_node, edge_type), and an offered edge with a missing
\* endpoint or an already-present key is dropped, leaving nodeCount and edgeCount
\* as they were (for load: the stored keys are exactly the offered keys whose
\* endpoints were loaded)
C1_EdgesWellFormed ==
    /\ \A i \in 1..Len(graphEdges) :
          /\ graphEdges[i].data.from_node \in storedIds
          /\ graphEdges[i].data.to_node \in storedIds
    /\ \A i, j \in 1..Len(graphEdges) :
          Triple(graphEdges[i].data) = Triple(graphEdges[j].data) => i = j
    /\ (last.op = "addEdge" /\ (last.missing \/ last.present)) =>
          (nodeCount = last.prevNodeCount /\ edgeCount = last.prevEdgeCount)
    /\ (last.op = "load" /\ ~last.threw) =>
          (storedTriples = last.eligible /\ edgeCount = Cardinality(last.eligible))

\* an edge offered to addEdge was dropped for a missing endpoint while the store
\* holds an edge, and a load dropped an offered edge
C1_Witness ==
    \/ last.op = "addEdge" /\ last.missing /\ edgeCount = 1 /\ nodeCount = 2
    \/ last.op = "addEdge" /\ last.present /\ ~last.missing /\ edgeCount = 2

-----------------------------------------------------------------------------
(* Specification SpecTraverse: the store is loaded once, then traversed *)

MaxDepth == 3

S_Cd == <<"C", "d">>
S_Zz == <<"Z", "z">>

N_D == GraphNode(K_entity, S_Cd, L_domain, NoValue, "h5", 0)

GraphNodeList == <<N_A, N_B, N_C, N_D>>

\* the edges a loaded index may hold, in file order; the links from the domain
\* layer to the behavior layer are the layer-violating ones
GraphEdgeList ==
    << GraphEdge(N_A.id, N_B.id, T_WIKI_LINK, TRUE),
       GraphEdge(N_B.id, N_A.id, T_WIKI_LINK, FALSE),
       GraphEdge(N_A.id, N_C.id, T_EMITS, FALSE),
       GraphEdge(N_C.id, N_D.id, T_WIKI_LINK, FALSE),
       GraphEdge(N_D.id, N_B.id, T_WIKI_LINK, TRUE),
       GraphEdge(N_D.id, N_D.id, T_WIKI_LINK, FALSE) >>

\* the elements of list at the positions in keep, in list order
RECURSIVE SubList(_, _, _)
SubList(list, keep, i) ==
    IF i > Len(list) THEN <<>>
    ELSE (IF i \in keep THEN <<list[i]>> ELSE <<>>) \o SubList(list, keep, i + 1)

UnknownId == makeNodeId(K_entity, S_Zz)

\* the index is loaded into the store once, when the process starts
LoadGraph ==
    /\ last.op = "new"
    /\ \E keep \in SUBSET (1..Len(GraphEdgeList)) :
          Load(GraphNodeList, SubList(GraphEdgeList, keep, 1))

Traverse(root, depth, edgeTypes, respectLayers) ==
    LET r == traverse(theStore, root, depth, edgeTypes, respectLayers)
    IN  /\ last.op # "new"
        /\ last' = [op |-> "traverse", root |-> root, depth |-> depth,
                    edgeTypes |-> edgeTypes, respectLayers |-> respectLayers,
                    nodes |-> r.nodes, edges |-> r.edges]
        /\ UNCHANGED <<storeVars, vectorVars, diskVars, cliVars>>

TraverseAny ==
    \E root \in {N_A.id, N_B.id, N_D.id, UnknownId}, depth \in 0..MaxDepth,
       edgeTypes \in {NoValue, <<T_WIKI_LINK>>}, respectLayers \in BOOLEAN :
        Traverse(root, depth, edgeTypes, respectLayers)

NextTraverse == LoadGraph \/ TraverseAny

SpecTraverse == Init /\ [][NextTraverse]_vars

\* the stored edges that pass the edge-type filter and the layer filter
PassingEdges(edgeTypes, respectLayers) ==
    {e \in Range(allEdges) :
        /\ (respectLayers => ~e.layer_violation)
        /\ (edgeTypes # NoValue => \E i \in 1..Len(edgeTypes) : edgeTypes[i] = e.edge_type)}

\* the nodes within k undirected steps of the set S over the edges E
RECURSIVE Within(_, _, _)
Within(S, E, k) ==
    IF k <= 0 THEN S
    ELSE Within(S \cup {e.to_node : e \in {x \in E : x.from_node \in S}}
                  \cup {e.from_node : e \in {x \in E : x.to_node \in S}}, E, k - 1)

IdsOf(ns) == {ns[i].id : i \in 1..Len(ns)}

\* C2: traverse on a known root returns exactly the nodes within depth undirected
\* steps of the root over the edges that pass the filters, the root first and each
\* node once; depth 0 returns the root alone and no edge; an unknown root returns
\* no node and no edge
C2_TraverseBall ==
    last.op = "traverse" =>
        IF last.root \in storedIds
        THEN /\ IdsOf(last.nodes) =
                    Within({last.root}, PassingEdges(last.edgeTypes, last.respectLayers),
                           last.depth)
             /\ last.nodes[1].id = last.root
             /\ \A i, j \in 1..Len(last.nodes) : last.nodes[i].id = last.nodes[j].id => i = j
             /\ (last.depth = 0 => Len(last.nodes) = 1 /\ last.edges = <<>>)
        ELSE last.nodes = <<>> /\ last.edges = <<>>

\* a traversal that stops at depth 2 with a node at distance 3 left out
C2_Witness ==
    /\ last.op = "traverse"
    /\ last.depth = 2
    /\ Len(last.nodes) = 3
    /\ Cardinality(Within({last.root}, PassingEdges(last.edgeTypes, last.respectLayers), 3)) = 4

-----------------------------------------------------------------------------
(* Specification SpecSearch: the index is loaded once, then queried.  A query
   leaves the stores as they are, so one query after the load reaches every
   result a later query could. *)

MaxLimit == 2

S_chunk0 == S_chunk \o <<"0">>
S_chunk1 == S_chunk \o <<"1">>

\* the embeddings of an index: two chunks of Ab, one of UC-1, one of a document
\* that has no node
EmbeddingIds == <<S_Ab \o S_chunk0, S_Ab \o S_chunk1, S_UC1 \o S_chunk0, S_Zz \o S_chunk0>>
EmbeddingVectors == << <<1, 0>>, <<3, 4>>, <<0, 1>>, <<4, 3>> >>

\* the vectors the encoder answers with
QueryVectors == {<<1, 0>>, <<3, 4>>}

\* query texts: empty, blank-padded with two letters, matching Entity:Ab alone,
\* matching no node
Q_empty == <<>>
Q_padded == <<" ", "a", "b", " ">>
Q_Ab == <<"y", ":", "A", "b">>
Q_none == <<"z", "z", "z">>
QueryTexts == {Q_empty, Q_padded, Q_Ab, Q_none}

\* minScore in hundredths
MinScores == {4, 5, 50}
TokenBudgets == {0, 4, 8000}

\* createContainer: the graph store is loaded from the node and edge files; the
\* vector store and the encoder are each null or set (every combination, as
\* hybridSearch's parameters allow)
LoadIndex ==
    /\ last.op = "new"
    /\ \E ns \in {<<N_A>>, GraphNodeList}, keep \in SUBSET {1, 2, 5},
          vs \in BOOLEAN, enc \in BOOLEAN :
          LET st == storeLoad(ns, SubList(GraphEdgeList, keep \cup {3, 4, 6}, 1))
          IN  /\ graphNodes' = st.gn
              /\ graphEdges' = st.ge
              /\ nodes' = st.nodes
              /\ vectorStore' = IF vs THEN [present |-> TRUE, ids |-> EmbeddingIds,
                                            vectors |-> EmbeddingVectors]
                                ELSE vectorStore
              /\ encodeFn' = enc
              /\ last' = [op |-> "load", threw |-> st.threw]
              /\ UNCHANGED <<diskVars, cliVars>>

HybridSearch(input, qv) ==
    /\ last.op = "load"
    /\ last' = [op |-> "hybridSearch", input |-> input,
                r |-> hybridSearch(input, theStore, vectorStore, encodeFn, qv)]
    /\ UNCHANGED <<storeVars, vectorVars, diskVars, cliVars>>

\* the callers pass a vector store and an encoder that are set
SemanticQuery(input, qv) ==
    /\ last.op = "load"
    /\ vectorStore.present /\ encodeFn
    /\ last' = [op |-> "semanticQuery", input |-> input,
                r |-> semanticQuery(input, theStore, vectorStore, qv)]
    /\ UNCHANGED <<storeVars, vectorVars, diskVars, cliVars>>

TraverseOnce(root, depth, edgeTypes, respectLayers) ==
    /\ last.op = "load"
    /\ Traverse(root, depth, edgeTypes, respectLayers)

HybridSearchAny ==
    /\ last.op = "load"
    /\ \E queryText \in QueryTexts, expandGraph \in BOOLEAN, depth \in {1, 2},
          includeKinds \in {NoValue, <<K_entity>>}, respectLayers \in BOOLEAN,
          minScore \in MinScores, limit \in 0..MaxLimit, maxTokens \in TokenBudgets,
          qv \in QueryVectors :
           HybridSearch([queryText |-> queryText, expandGraph |-> expandGraph, depth |-> depth,
                         includeKinds |-> includeKinds, includeLayers |-> NoValue,
                         respectLayers |-> respectLayers, minScore |-> minScore,
                         limit |-> limit, maxTokens |-> maxTokens], qv)

SemanticQueryAny ==
    /\ last.op = "load"
    /\ \E queryText \in QueryTexts, includeKinds \in {NoValue, <<K_entity>>},
          minScore \in MinScores \cup {70}, limit \in 0..MaxLimit, qv \in QueryVectors :
           SemanticQuery([queryText |-> queryText, includeKinds |-> includeKinds,
                          includeLayers |-> NoValue, minScore |-> minScore, limit |-> limit], qv)

TraverseOnceAny ==
    /\ last.op = "load"
    /\ \E root \in {N_A.id, N_B.id}, depth \in {1, 2}, respectLayers \in BOOLEAN :
           TraverseOnce(root, depth, NoValue, respectLayers)

NextSearch == LoadIndex \/ HybridSearchAny \/ SemanticQueryAny \/ TraverseOnceAny

SpecSearch == Init /\ [][NextSearch]_vars

\* the stored edges that are not layer-violating
NonViolating == {e \in Range(allEdges) : ~e.layer_violation}

\* the ids hybridSearch expands from: those with semantic or lexical evidence
SeedsOf(scores) ==
    {scores[i].id : i \in {j \in 1..Len(scores) :
                            scores[j].semantic # Unset \/ scores[j].lexical # Unset}}

\* C3: with respectLayers true, traverse returns no layer-violating edge and only
\* nodes within depth steps of the root over edges that are not layer-violating;
\* hybridSearch puts no layer-violating edge in graphExpansion and gives graph
\* evidence only to a node within depth such steps of another seed
C3_RespectLayers ==
    /\ (last.op = "traverse" /\ last.respectLayers) =>
          /\ \A i \in 1..Len(last.edges) : ~last.edges[i].layer_violation
          /\ IdsOf(last.nodes) \subseteq Within({last.root}, NonViolating, last.depth)
    /\ (last.op = "hybridSearch" /\ last.r.error = "none" /\ last.input.respectLayers) =>
          /\ \A i \in 1..Len(last.r.graphExpansion) :
                ~last.r.graphExpansion[i].layer_violation
          /\ \A i \in 1..Len(last.r.scores) :
                last.r.scores[i].graph > 0 =>
                    \E seed \in SeedsOf(last.r.scores) \ {last.r.scores[i].id} :
                        last.r.scores[i].id \in Within({seed}, NonViolating, last.input.depth)

\* a hybrid search that respects layers gave graph evidence to some node and none
\* to a node that the layer-violating edges would have reached
C3_Witness ==
    /\ last.op = "hybridSearch"
    /\ last.r.error = "none"
    /\ last.input.respectLayers
    /\ last.input.expandGraph
    /\ \E i \in 1..Len(last.r.scores) : last.r.scores[i].graph > 0
    /\ \E id \in storedIds :
          /\ \A i \in 1..Len(last.r.scores) : last.r.scores[i].id # id
          /\ id \in Within(SeedsOf(last.r.scores), Range(allEdges), last.input.depth)

RECURSIVE SumTokens(_)
SumTokens(results) ==
    IF results = <<>> THEN 0
    ELSE Max(1, Len(Head(results).snippet) \div 4) + SumTokens(Tail(results))

\* C4: hybridSearch returns a prefix of the fused candidates, which are sorted by
\* descending score; the list has at most limit entries; totalTokens is the sum
\* of max(1, floor(len(snippet)/4)) over the returned entries; totalTokens is at
\* most maxTokens unless the list is just the single top-scored entry
C4_PrefixWithinBudget ==
    (last.op = "hybridSearch" /\ last.r.error = "none") =>
        /\ \A i, j \in 1..Len(last.r.fused) :
              i < j => last.r.fused[i].score >= last.r.fused[j].score
        /\ Len(last.r.results) <= Len(last.r.fused)
        /\ last.r.results = SubSeq(last.r.fused, 1, Len(last.r.results))
        /\ Len(last.r.results) <= last.input.limit
        /\ last.r.totalTokens = SumTokens(last.r.results)
        /\ \/ last.r.totalTokens <= last.input.maxTokens
           \/ last.r.results = <<last.r.fused[1]>>

\* C5: hybridSearch returns a non-empty warnings list iff the vector store or the
\* encoder is absent; the list then holds the NO_EMBEDDINGS warning, the encoder
\* was not called and no result has match_source semantic or fusion
C5_NoEmbeddingsWarning ==
    (last.op = "hybridSearch" /\ last.r.error = "none") =>
        /\ last.r.warnings # <<>> <=> (~vectorStore.present \/ ~encodeFn)
        /\ last.r.warnings # <<>> =>
              /\ \E i \in 1..Len(last.r.warnings) : last.r.warnings[i] = NO_EMBEDDINGS
              /\ \A i \in 1..Len(last.r.calls) : last.r.calls[i] # "encodeFn"
              /\ \A i \in 1..Len(last.r.results) :
                    last.r.results[i].match_source \notin {"semantic", "fusion"}

\* a search with a loaded vector store and no encoder returned results with the
\* warning
C5_Witness ==
    /\ last.op = "hybridSearch"
    /\ last.r.error = "none"
    /\ vectorStore.present /\ ~encodeFn
    /\ last.r.warnings # <<>>
    /\ last.r.results # <<>>

\* the evidence hybridSearch held for a result
SourcesOf(scores, id) == scores[CHOOSE i \in 1..Len(scores) : scores[i].id = id]

LexicalOnly(sources) ==
    sources.lexical > 0 /\ sources.semantic = Unset /\ sources.graph = Unset

\* the index holds exactly one node, the node matches the query by substring and
\* passes the kind and layer filters, and the vector store is absent
OneLexicalMatch ==
    /\ ~vectorStore.present
    /\ Len(nodes) = 1
    /\ Includes(ToLowerCase(nodes[1].id), ToLowerCase(last.input.queryText))
    /\ kindLayerFilter(nodes[1], last.input.includeKinds, last.input.includeLayers)

\* C6 as stated: a result whose only evidence is lexical has match_source lexical
\* and score 0.1/1.2 (100 of 1200); with the vector store absent and one node that
\* matches, minScore 0.5 gives no result and minScore 0.05 gives exactly one
C6_LexicalScoreTenth ==
    (last.op = "hybridSearch" /\ last.r.error = "none") =>
        /\ \A i \in 1..Len(last.r.results) :
              LexicalOnly(SourcesOf(last.r.scores, last.r.results[i].node_id)) =>
                  /\ last.r.results[i].match_source = "lexical"
                  /\ last.r.results[i].score = 100
        /\ OneLexicalMatch =>
              /\ last.input.minScore = 50 => last.r.results = <<>>
              /\ last.input.minScore = 5 => Len(last.r.results) = 1

\* C6 amended: a result whose only evidence is lexical has match_source lexical
\* and score 0.05/1.2 (50 of 1200); with the vector store absent and one node that
\* matches, minScore 0.5 and minScore 0.05 give no result and minScore 0.04 gives
\* exactly one, tagged lexical
C6_LexicalScoreTwentieth ==
    (last.op = "hybridSearch" /\ last.r.error = "none") =>
        /\ \A i \in 1..Len(last.r.results) :
              LexicalOnly(SourcesOf(last.r.scores, last.r.results[i].node_id)) =>
                  /\ last.r.results[i].match_source = "lexical"
                  /\ last.r.results[i].score = 50
        /\ OneLexicalMatch =>
              /\ last.input.minScore = 50 => last.r.results = <<>>
              /\ last.input.minScore = 5 => last.r.results = <<>>
              /\ last.input.minScore = 4 =>
                    /\ Len(last.r.results) = 1
                    /\ last.r.results[1].match_source = "lexical"
                    /\ last.r.results[1].node_id = nodes[1].id

\* the one-node index answered a matching query at minScore 0.04 with the node
C6_Witness ==
    /\ last.op = "hybridSearch"
    /\ last.r.error = "none"
    /\ OneLexicalMatch
    /\ last.input.minScore = 4
    /\ Len(last.r.results) = 1
    /\ last.r.results[1].score = 50

\* the length of the text without its leading and trailing blanks
RECURSIVE TrimmedLength(_)
TrimmedLength(text) ==
    IF text = <<>> THEN 0
    ELSE IF Head(text) = " " THEN TrimmedLength(Tail(text))
    ELSE IF text[Len(text)] = " " THEN TrimmedLength(SubSeq(text, 1, Len(text) - 1))
    ELSE Len(text)

\* C7: hybridSearch and semanticQuery answer a query whose trimmed text is shorter
\* than 3 characters with QUERY_TOO_SHORT, having called no collaborator: not the
\* encoder, not the graph store, not the vector store
C7_QueryTooShortFirst ==
    (last.op \in {"hybridSearch", "semanticQuery"}
        /\ TrimmedLength(last.input.queryText) < 3) =>
        /\ last.r.error = QUERY_TOO_SHORT
        /\ last.r.calls = <<>>

\* semanticQuery rejected a blank-padded query of four characters
C7_Witness ==
    /\ last.op = "semanticQuery"
    /\ Len(last.input.queryText) >= 3
    /\ TrimmedLength(last.input.queryText) < 3
    /\ last.r.error = QUERY_TOO_SHORT

-----------------------------------------------------------------------------
(* Specification SpecIndex: any sequence of indexDocument, clearEdges and
   deleteDocumentArtifacts on one artifact tree *)

MaxRuns == 3

SourceFile(filePath, id, kind, layer, hash, links, chunks) ==
    [filePath |-> filePath, id |-> id, kind |-> kind, layer |-> layer, hash |-> hash,
     links |-> links, chunks |-> chunks]

Link(to, type, violation) == [to |-> to, type |-> type, violation |-> violation]

\* an entity file without a front-matter id, and the same file after an edit
F_Ab ==
    SourceFile(<<"d", "/", "A", "b", ".", "m", "d">>, NoValue, K_entity, L_domain, "h1",
               <<Link(N_B.id, T_WIKI_LINK, TRUE)>>, 1)
F_AbEdited ==
    SourceFile(<<"d", "/", "A", "b", ".", "m", "d">>, NoValue, K_entity, L_domain, "h2",
               <<Link(N_C.id, T_EMITS, FALSE)>>, 2)
\* a use case that links to the entity
F_UC1 ==
    SourceFile(<<"b", "/", "u", ".", "m", "d">>, S_UC1, K_use_case, L_behavior, "h3",
               <<Link(N_A.id, T_WIKI_LINK, FALSE)>>, 1)
\* an event whose document id is the entity's
F_AbEvent ==
    SourceFile(<<"e", "/", "A", "b", ".", "m", "d">>, S_Ab, K_event, L_domain, "h4",
               <<Link(N_A.id, T_WIKI_LINK, FALSE)>>, 1)
\* a file that routes to no kind
F_NoKind ==
    SourceFile(<<"x", "/", "Z", "z", ".", "m", "d">>, NoValue, NoValue, L_domain, "h5", <<>>, 0)

SourceFiles == {F_Ab, F_AbEdited, F_UC1, F_AbEvent, F_NoKind}

IndexDocument(file, embed) ==
    LET r == indexDocument(file, embed, nodeFiles, edgesFile, embFiles, clock)
    IN  /\ clock < MaxRuns
        /\ nodeFiles' = r.nodeFiles
        /\ edgesFile' = r.edgesFile
        /\ embFiles' = r.embFiles
        /\ clock' = clock + 1
        /\ last' = [op |-> "indexDocument", file |-> file, success |-> r.success,
                    again |-> (last.op = "indexDocument" /\ last.success
                                /\ last.file.filePath = file.filePath),
                    unchanged |-> (last.op = "indexDocument" /\ last.success
                                    /\ last.file = file),
                    prevNodeFiles |-> nodeFiles,
                    prevEdgesFile |-> edgesFile]
        /\ UNCHANGED <<storeVars, vectorVars, cliVars>>

ClearEdges ==
    /\ edgesFile' = clearEdges
    /\ last' = [op |-> "clearEdges"]
    /\ UNCHANGED <<storeVars, vectorVars, nodeFiles, embFiles, clock, cliVars>>

DeleteDocumentArtifacts(documentId) ==
    \E left \in deleteDocumentArtifacts(nodeFiles, edgesFile, embFiles, documentId) :
        /\ nodeFiles' = left.nodeFiles
        /\ edgesFile' = left.edgesFile
        /\ embFiles' = left.embFiles
        /\ last' = [op |-> "deleteDocumentArtifacts", documentId |-> documentId,
                    prevNodeFiles |-> nodeFiles, prevEdgesFile |-> edgesFile,
                    prevEmbFiles |-> embFiles]
        /\ UNCHANGED <<storeVars, vectorVars, clock, cliVars>>

IndexDocumentAny == \E file \in SourceFiles, embed \in BOOLEAN : IndexDocument(file, embed)
DeleteDocumentArtifactsAny == \E documentId \in {S_Ab, S_UC1} : DeleteDocumentArtifacts(documentId)

NextIndex == IndexDocumentAny \/ ClearEdges \/ DeleteDocumentArtifactsAny

SpecIndex == Init /\ [][NextIndex]_vars

\* the lines of edges.jsonl that leave the node id
LinesFrom(file, id) == SelectSeq(file.lines, LAMBDA data : data.from_node = id)

\* C8: after indexDocument runs a second time on a file, changed or unchanged, the
\* lines of edges.jsonl that have the document's node as source are exactly the
\* edges of the latest extraction, in order, each once
C8_ReindexReplacesEdges ==
    (last.op = "indexDocument" /\ last.success /\ last.again) =>
        LET mine == LinesFrom(edgesFile, makeNodeId(last.file.kind, documentIdOf(last.file)))
        IN  /\ Len(mine) = Len(last.file.links)
            /\ \A i \in 1..Len(mine) :
                  /\ mine[i].to_node = last.file.links[i].to
                  /\ mine[i].edge_type = last.file.links[i].type

\* the (directory, name) pairs of the files of a tree
PathsOf(files) == {<<f.dir, f.name>> : f \in files}

\* a node without its indexed_at stamp
Unstamped(node) == [node EXCEPT !.indexed_at = 0]

\* C9: no two node files hold the same node id; after indexDocument succeeds,
\* nodes/<kind>/<documentId>.json exists exactly once; after a run on the
\* unchanged file the set of node files is the one the first run left and every
\* node is as it was except for indexed_at
C9_NodeTreeIdempotent ==
    /\ \A f, g \in nodeFiles : f.data.id = g.data.id => f = g
    /\ (last.op = "indexDocument" /\ last.success) =>
          Cardinality({f \in nodeFiles : /\ f.dir = last.file.kind
                                         /\ f.name = documentIdOf(last.file)}) = 1
    /\ (last.op = "indexDocument" /\ last.unchanged) =>
          /\ PathsOf(nodeFiles) = PathsOf(last.prevNodeFiles)
          /\ Cardinality(nodeFiles) = Cardinality(last.prevNodeFiles)
          /\ \A f \in nodeFiles : \E g \in last.prevNodeFiles :
                /\ g.dir = f.dir /\ g.name = f.name
                /\ Unstamped(g.data) = Unstamped(f.data)

\* a second run on the unchanged file rewrote its node with a later indexed_at,
\* next to the node file of another document
C9_Witness ==
    /\ last.op = "indexDocument"
    /\ last.unchanged
    /\ Cardinality(nodeFiles) >= 2
    /\ \E f \in nodeFiles : f \notin last.prevNodeFiles

\* C10: after deleteDocumentArtifacts(documentId) no node file and no embedding
\* file named <documentId>.json remains under any kind; edges.jsonl is its previous
\* content without exactly the lines that have a deleted node's id as from_node or
\* to_node; the files of other documents are as they were
C10_DeleteRemovesDocument ==
    last.op = "deleteDocumentArtifacts" =>
        LET deletedIds == {f.data.id : f \in last.prevNodeFiles \ nodeFiles}
        IN  /\ \A f \in nodeFiles : f.name # last.documentId
            /\ \A f \in embFiles : f.name # last.documentId
            /\ edgesFile.exists = last.prevEdgesFile.exists
            /\ edgesFile.lines =
                  SelectSeq(last.prevEdgesFile.lines,
                            LAMBDA data : /\ data.from_node \notin deletedIds
                                          /\ data.to_node \notin deletedIds)
            /\ {f \in nodeFiles : f.name # last.documentId}
                  = {f \in last.prevNodeFiles : f.name # last.documentId}
            /\ {f \in embFiles : f.name # last.documentId}
                  = {f \in last.prevEmbFiles : f.name # last.documentId}

-----------------------------------------------------------------------------
(* Specification SpecBatch: the index command (clear the edges, index every
   file of the sorted scan, write the manifest), run up to MaxInvocations times
   on one artifact tree, each run followed by loads of the tree *)

MaxInvocations == 2

\* the markdown files a scan may find, sorted by path
Batches ==
    {<<F_UC1, F_Ab>>, <<F_UC1>>, <<F_UC1, F_AbEdited, F_NoKind>>, <<F_Ab, F_AbEvent>>}

\* indexCmd.run up to the file loop
IndexStart(files, embed) ==
    /\ cli.pc \in {"idle", "done", "aborted"}
    /\ cli.invocation < MaxInvocations
    /\ edgesFile' = clearEdges
    /\ cli' = [pc |-> "loop", invocation |-> cli.invocation + 1, files |-> files, i |-> 1,
               embed |-> embed, nodeCount |-> 0, edgeCount |-> 0, embeddingCount |-> 0,
               skippedCount |-> 0, nodes |-> <<>>, edges |-> <<>>]
    /\ last' = [op |-> "indexStart"]
    /\ UNCHANGED <<storeVars, vectorVars, nodeFiles, embFiles, clock, manifestFile>>

\* one turn of the file loop; a rejection of indexDocument is not caught and ends
\* the command
IndexStep(fault) ==
    /\ cli.pc = "loop"
    /\ cli.i <= Len(cli.files)
    /\ LET r == indexDocumentWith(fault, DefaultRegistry, cli.files[cli.i], cli.embed,
                                  nodeFiles, edgesFile, embFiles, clock)
       IN  /\ nodeFiles' = r.nodeFiles
           /\ edgesFile' = r.edgesFile
           /\ embFiles' = r.embFiles
           /\ clock' = clock + 1
           /\ cli' = IF r.threw THEN [cli EXCEPT !.pc = "aborted"]
                     ELSE IF r.success
                     THEN [cli EXCEPT !.i = @ + 1, !.nodeCount = @ + 1,
                                      !.edgeCount = @ + r.edge_count,
                                      !.embeddingCount = @ + r.embedding_count,
                                      !.nodes = Append(@, r.node),
                                      !.edges = @ \o r.edges]
                     ELSE [cli EXCEPT !.i = @ + 1, !.skippedCount = @ + 1]
           /\ last' = [op |-> "indexStep", fault |-> fault, file |-> cli.files[cli.i],
                       threw |-> r.threw,
                       success |-> IF r.threw THEN FALSE ELSE r.success,
                       skipped_reason |-> IF r.threw THEN "none" ELSE r.skipped_reason]
    /\ UNCHANGED <<storeVars, vectorVars, manifestFile>>

\* indexCmd.run after the file loop
IndexManifest ==
    /\ cli.pc = "loop"
    /\ cli.i > Len(cli.files)
    /\ manifestFile' =
          [exists |-> TRUE,
           data |-> [index_level |-> IF cli.embed THEN "L2" ELSE "L1", indexed_at |-> clock,
                     stats |-> [nodes |-> cli.nodeCount, edges |-> cli.edgeCount,
                                embeddings |-> cli.embeddingCount]]]
    /\ cli' = [cli EXCEPT !.pc = "done"]
    /\ last' = [op |-> "writeManifest"]
    /\ UNCHANGED <<storeVars, vectorVars, diskVars>>

\* a process that starts on the finished index
LoadContainer ==
    /\ cli.pc = "done"
    /\ last.op # "createContainer"
    /\ \E nodeOrder \in Orders(nodeFiles), embOrder \in Orders(embFiles) :
          LET c == createContainer(manifestFile, nodeOrder, edgesFile, embOrder)
          IN  /\ ~c.threw
              /\ graphNodes' = c.store.gn
              /\ graphEdges' = c.store.ge
              /\ nodes' = c.store.nodes
              /\ vectorStore' = c.vectorStore
              /\ encodeFn' = c.encodeFn
              /\ last' = [op |-> "createContainer"]
    /\ UNCHANGED <<diskVars, cliVars>>

IndexStartAny == \E files \in Batches, embed \in BOOLEAN : IndexStart(files, embed)
IndexStepAny == \E fault \in Faults : IndexStep(fault)

NextBatch == IndexStartAny \/ IndexStepAny \/ IndexManifest \/ LoadContainer

SpecBatch == Init /\ [][NextBatch]_vars

\* C11: a failure while indexing one document never ends the command: the turn
\* of the loop yields success = false with a skipped_reason, and the command is
\* never left before the manifest is written
C11_BatchNeverAborts ==
    /\ cli.pc # "aborted"
    /\ (last.op = "indexStep" /\ last.fault # "none") =>
          (~last.success /\ last.skipped_reason # "none")

\* C12: the store loaded from the artifact tree of a finished index run has the
\* node count and the edge count of the store loaded from the run's extracted
\* nodes and edges, and every node has the same indexed fields
C12_TreeRoundTrip ==
    last.op = "createContainer" =>
        LET direct == storeLoad(cli.nodes, cli.edges)
        IN  /\ ~direct.threw
            /\ nodeCount = Len(direct.nodes)
            /\ edgeCount = Len(direct.ge)
            /\ \A i \in 1..Len(nodes) : \E j \in 1..Len(direct.nodes) :
                  /\ direct.nodes[j].id = nodes[i].id
                  /\ direct.nodes[j].title = nodes[i].title

-----------------------------------------------------------------------------
(* Specification SpecQuery: a process loads the store and answers one impact,
   coverage or graph query *)

\* the edges a loaded index may hold, in file order: two edges of different
\* types from one source, a cycle, a self-loop and a chain of three
QueryEdgeList ==
    << GraphEdge(N_B.id, N_A.id, T_WIKI_LINK, FALSE),
       GraphEdge(N_B.id, N_A.id, T_ENTITY_RULE, FALSE),
       GraphEdge(N_A.id, N_B.id, T_WIKI_LINK, TRUE),
       GraphEdge(N_C.id, N_B.id, T_UC_APPLIES_RULE, FALSE),
       GraphEdge(N_D.id, N_C.id, T_WIKI_LINK, FALSE),
       GraphEdge(N_A.id, N_C.id, T_EMITS, FALSE),
       GraphEdge(N_D.id, N_D.id, T_WIKI_LINK, FALSE),
       GraphEdge(N_C.id, N_D.id, T_VALIDATES, FALSE) >>

QueryNodeIds == {N_A.id, N_B.id, N_C.id, N_D.id, UnknownId}

LoadQueryGraph ==
    /\ last.op = "new"
    /\ \E keep \in SUBSET (1..Len(QueryEdgeList)) :
          Load(GraphNodeList, SubList(QueryEdgeList, keep, 1))

ImpactQuery(nodeId, changeType, depth) ==
    /\ last' = [op |-> "impactQuery", nodeId |-> nodeId, depth |-> depth,
                result |-> impactQuery([nodeId |-> nodeId, changeType |-> changeType,
                                        depth |-> depth], theStore)]
    /\ UNCHANGED <<storeVars, vectorVars, diskVars, cliVars>>

CoverageQuery(nodeId) ==
    /\ last' = [op |-> "coverageQuery", nodeId |-> nodeId,
                result |-> coverageQuery([nodeId |-> nodeId], theStore)]
    /\ UNCHANGED <<storeVars, vectorVars, diskVars, cliVars>>

GraphQuery(rootNode, depth, includeKinds, respectLayers) ==
    /\ last' = [op |-> "graphQuery", nodeId |-> rootNode, depth |-> depth,
                includeKinds |-> includeKinds, respectLayers |-> respectLayers,
                result |-> graphQuery([rootNode |-> rootNode, depth |-> depth,
                                       edgeTypes |-> NoValue,
                                       includeKinds |-> includeKinds,
                                       respectLayers |-> respectLayers], theStore)]
    /\ UNCHANGED <<storeVars, vectorVars, diskVars, cliVars>>

ImpactQueryAny ==
    /\ last.op = "load"
    /\ \E nodeId \in QueryNodeIds, changeType \in {<<>>, <<"delete">>},
          depth \in {Unset} \cup 0..MaxDepth :
          ImpactQuery(nodeId, changeType, depth)

CoverageQueryAny ==
    /\ last.op = "load"
    /\ \E nodeId \in QueryNodeIds : CoverageQuery(nodeId)

GraphQueryAny ==
    /\ last.op = "load"
    /\ \E rootNode \in {N_A.id, N_D.id, UnknownId}, depth \in {Unset, 1, MaxDepth},
          includeKinds \in {NoValue, <<K_entity>>}, respectLayers \in BOOLEAN :
          GraphQuery(rootNode, depth, includeKinds, respectLayers)

NextQuery == LoadQueryGraph \/ ImpactQueryAny \/ CoverageQueryAny \/ GraphQueryAny

SpecQuery == Init /\ [][NextQuery]_vars

\* the stored edges into the node, in store order
EdgesInto(nodeId) == SelectSeq(allEdges, LAMBDA e : e.to_node = nodeId)

\* the depth an impact query ran with
ImpactDepth == IF last.depth = Unset THEN 3 ELSE last.depth

ImpactDone == last.op = "impactQuery" /\ last.result.error = "none"

RECURSIVE ReachIn(_, _)
ReachIn(S, k) ==
    IF k <= 0 THEN S
    ELSE ReachIn({e.from_node : e \in {x \in Range(allEdges) : x.to_node \in S}}, k - 1)

\* C14: transitivelyAffected holds, once each, exactly the nodes with a walk of 2
\* to depth incoming edges to the analyzed node that are neither directly
\* affected nor the analyzed node; it is empty when depth <= 1; totalTransitively
\* is its length
C14_TransitiveSet ==
    ImpactDone =>
        LET trans == last.result.transitivelyAffected
            direct == last.result.directlyAffected
            directIds == {direct[i].node_id : i \in 1..Len(direct)}
            reaching == UNION {ReachIn({last.nodeId}, k) : k \in 2..ImpactDepth}
        IN  /\ {trans[i].node_id : i \in 1..Len(trans)} =
                  (reaching \ directIds) \ {last.nodeId}
            /\ \A i, j \in 1..Len(trans) : trans[i].node_id = trans[j].node_id => i = j
            /\ (ImpactDepth <= 1 => trans = <<>>)
            /\ last.result.totalTransitively = Len(trans)

\* a query of depth 2 that lists a node two steps away and leaves out one three
\* steps away
C14_Witness ==
    /\ ImpactDone
    /\ ImpactDepth = 2
    /\ Len(last.result.transitivelyAffected) = 1
    /\ \E n \in ReachIn({last.nodeId}, 3) :
          /\ n # last.nodeId
          /\ n \notin ReachIn({last.nodeId}, 1) \cup ReachIn({last.nodeId}, 2)

\* C15: in every transitivelyAffected record the path starts with the analyzed
\* node and ends with the record's node, each path[i+1] is the source of a stored
\* edge into path[i] of type edge_types[i], and the path has one node more than
\* edge_types and at most depth + 1 nodes
C15_PathFollowsEdges ==
    ImpactDone =>
        \A r \in Range(last.result.transitivelyAffected) :
            /\ r.path[1] = last.nodeId
            /\ r.path[Len(r.path)] = r.node_id
            /\ \A i \in 1..Len(r.edge_types) :
                  \E e \in Range(allEdges) :
                      /\ e.to_node = r.path[i]
                      /\ e.from_node = r.path[i + 1]
                      /\ e.edge_type = r.edge_types[i]
            /\ Len(r.path) = Len(r.edge_types) + 1
            /\ Len(r.path) <= ImpactDepth + 1

\* a record three edges away whose path crosses edges of two types
C15_Witness ==
    /\ ImpactDone
    /\ \E r \in Range(last.result.transitivelyAffected) :
          /\ Len(r.path) = 4
          /\ r.edge_types[1] # r.edge_types[2]

\* the other endpoints of the edges of a type incident to the node
OtherEndpoints(nodeId, edgeType) ==
    {e.from_node : e \in {x \in Range(allEdges) :
                             x.edge_type = edgeType /\ x.to_node = nodeId}}
    \cup {e.to_node : e \in {x \in Range(allEdges) :
                                x.edge_type = edgeType /\ x.from_node = nodeId}}

CoverageDone == last.op = "coverageQuery" /\ last.result.error = "none"

\* C16: coverageQuery returns one category for each rule of the node's kind, in
\* table order; found lists once each the other endpoints of the node's incident
\* edges of the rule's type; status is covered iff found is not empty; present +
\* missing is the number of rules; coveragePercent is 100*present/(present +
\* missing) rounded to one decimal, 33.3 for one covered category of three
C16_CoverageCategories ==
    CoverageDone =>
        LET rules == COVERAGE_RULES(mapGet(nodes, last.nodeId).kind)
            cats == last.result.categories
            present == last.result.present
            missing == last.result.missing
            tenths == last.result.coveragePercent
        IN  /\ Len(cats) = Len(rules)
            /\ \A i \in 1..Len(rules) :
                  /\ cats[i].name = rules[i].name
                  /\ cats[i].edge_type = rules[i].edge_type
                  /\ Range(cats[i].found) = OtherEndpoints(last.nodeId, rules[i].edge_type)
                  /\ \A j, k \in 1..Len(cats[i].found) :
                        cats[i].found[j] = cats[i].found[k] => j = k
                  /\ cats[i].status = IF cats[i].found # <<>> THEN "covered" ELSE "missing"
            /\ present = Cardinality({i \in 1..Len(cats) : cats[i].status = "covered"})
            /\ present + missing = Len(rules)
            /\ 2 * (present + missing) * tenths <= 2000 * present + (present + missing)
            /\ 2 * (present + missing) * tenths > 2000 * present - (present + missing)
            /\ (present = 1 /\ missing = 2 => tenths = 333)

\* one covered category of three, whose found list names once a node joined to
\* the analyzed node by an edge in each direction
C16_Witness ==
    /\ CoverageDone
    /\ last.result.present = 1 /\ last.result.missing = 2
    /\ last.result.coveragePercent = 333
    /\ \E c \in Range(last.result.categories) :
          /\ Len(c.found) = 1
          /\ \E e, f \in Range(allEdges) :
                /\ e.edge_type = c.edge_type /\ f.edge_type = c.edge_type
                /\ e.from_node = last.nodeId /\ e.to_node = c.found[1]
                /\ f.to_node = last.nodeId /\ f.from_node = c.found[1]

QueryOps == {"graphQuery", "impactQuery", "coverageQuery"}

\* C17: a graph, impact or coverage query on a node ID the store does not hold
\* fails with NODE_NOT_FOUND, and a coverage query on a node whose kind is none
\* of entity, command, use-case, business-rule and requirement fails with
\* UNKNOWN_KIND; the failure carries no result and the store is as it was
C17_QueryErrors ==
    [][ last'.op \in QueryOps =>
          /\ last'.nodeId \notin storedIds =>
                /\ last'.result.error = S_NODE_NOT_FOUND
                /\ DOMAIN last'.result = {"error", "nodeId"}
          /\ (/\ last'.op = "coverageQuery"
              /\ last'.nodeId \in storedIds
              /\ mapGet(nodes, last'.nodeId).kind \notin
                    {K_entity, K_command, K_use_case, K_business_rule, K_requirement}) =>
                /\ last'.result.error = S_UNKNOWN_KIND
                /\ DOMAIN last'.result = {"error", "nodeId"}
          /\ last'.result.error # "none" => UNCHANGED storeVars ]_vars

\* a coverage query on an event node
C17_Witness ==
    /\ last.op = "coverageQuery"
    /\ last.nodeId \in storedIds
    /\ last.result.error = S_UNKNOWN_KIND

-----------------------------------------------------------------------------
(* Specification SpecExtract: a process extracts the edges of one document,
   removes the duplicates of one edge list, or indexes a document together with
   a document it links to and loads the two into the store *)

MaxListLen == 3

Section(heading, content) == [heading |-> heading, content |-> content]

Document(id, kind, layer, source_path, sections) ==
    [id |-> id, kind |-> kind, layer |-> layer, source_path |-> source_path,
     sections |-> sections]

Sec_Description ==
    Section(<<"D", "e", "s", "c", "r", "i", "p", "t", "i", "o", "n">>,
            <<"[", "[", "A", "b", "]", "]", " ", "[", "[", "U", "C", "-", "1", "|", "u",
              "]", "]", " ", "[", "[", "A", "b", "]", "]", " ", "[", "[", "d", ":", ":",
              "E", "V", "T", "-", "x", "]", "]", " ", "[", "[", "O", "B", "J", "-", "1",
              "]", "]">>)
Sec_Relations ==
    Section(<<"R", "e", "l", "a", "t", "i", "o", "n", "s">>,
            <<"|", "R", "|", "T", "|", "\n", "|", "-", "|", "-", "|", "\n", "|", "r",
              "|", "[", "[", "U", "C", "-", "1", "]", "]", "|", "\n", "|", "s", "|", "[",
              "[", "U", "C", "-", "1", "]", "]", "|", "\n", "|", "t", "|", "[", "[", "C",
              "d", "]", "]", "|">>)
Sec_Lifecycle ==
    Section(<<"L", "i", "f", "e", "c", "y", "c", "l", "e", " ", "E", "v", "e", "n", "t",
              "s">>,
            <<"[", "[", "E", "V", "T", "-", "x", "]", "]", " ", "[", "[", "E", "V", "T",
              "-", "x", "]", "]">>)
Sec_AppliedRules ==
    Section(<<"A", "p", "p", "l", "i", "e", "d", " ", "R", "u", "l", "e", "s">>,
            <<"[", "[", "B", "R", "-", "1", "]", "]", " ", "[", "[", "B", "R", "-", "1",
              "]", "]", " ", "[", "[", "A", "b", "]", "]">>)
Sec_Commands ==
    Section(<<"C", "o", "m", "m", "a", "n", "d", "s", " ", "E", "x", "e", "c", "u", "t",
              "e", "d">>,
            <<"[", "[", "C", "M", "D", "-", "1", "]", "]">>)
Sec_Declaration ==
    Section(<<"D", "e", "c", "l", "a", "r", "a", "t", "i", "o", "n">>,
            <<"[", "[", "A", "b", "]", "]", " ", "[", "[", "A", "b", "]", "]", " ", "[",
              "[", "U", "C", "-", "1", "]", "]">>)
Sec_Postconditions ==
    Section(<<"P", "o", "s", "t", "c", "o", "n", "d", "i", "t", "i", "o", "n", "s">>,
            <<"[", "[", "E", "V", "T", "-", "x", "]", "]">>)

AllSections ==
    << Sec_Description, Sec_Relations, Sec_Lifecycle, Sec_AppliedRules, Sec_Commands,
       Sec_Declaration, Sec_Postconditions >>

SectionLists ==
    { AllSections, <<>>, <<Sec_Description>>, <<Sec_Relations, Sec_Lifecycle>>,
      <<Sec_Description, Sec_AppliedRules, Sec_Commands>>,
      <<Sec_Declaration, Sec_Postconditions>> }

Layers == {L_requirements, L_domain, L_behavior, L_experience, L_verification}

\* a document of every kind under every layer directory (a kind outside its
\* expected path is routed with a warning)
Documents ==
    {Document(S_Cd, kind, layer, <<"C", "d", ".", "m", "d">>, sections) :
        kind \in Range(KDD_KINDS), layer \in Layers, sections \in SectionLists}

\* a document of each kind, at its expected layer; the use case is the file
\* UC-1-X.md whose front matter sets the id UC-1
TargetDocuments ==
    << Document(<<"A", "b">>, KDD_KINDS[1], L_domain,
                <<"d", "/", "A", "b", ".", "m", "d">>, <<>>),
       Document(<<"E", "V", "T", "-", "x">>, KDD_KINDS[2], L_domain,
                <<"d", "/", "E", "V", "T", "-", "x", ".", "m", "d">>, <<>>),
       Document(<<"B", "R", "-", "1">>, KDD_KINDS[3], L_domain,
                <<"d", "/", "B", "R", "-", "1", ".", "m", "d">>, <<>>),
       Document(<<"B", "P", "-", "1">>, KDD_KINDS[4], L_behavior,
                <<"b", "/", "B", "P", "-", "1", ".", "m", "d">>, <<>>),
       Document(<<"X", "P", "-", "1">>, KDD_KINDS[5], L_behavior,
                <<"b", "/", "X", "P", "-", "1", ".", "m", "d">>, <<>>),
       Document(<<"C", "M", "D", "-", "1">>, KDD_KINDS[6], L_behavior,
                <<"b", "/", "C", "M", "D", "-", "1", ".", "m", "d">>, <<>>),
       Document(<<"Q", "R", "Y", "-", "1">>, KDD_KINDS[7], L_behavior,
                <<"b", "/", "Q", "R", "Y", "-", "1", ".", "m", "d">>, <<>>),
       Document(<<"P", "R", "O", "C", "-", "1">>, KDD_KINDS[8], L_behavior,
                <<"b", "/", "P", "R", "O", "C", "-", "1", ".", "m", "d">>, <<>>),
       Document(<<"U", "C", "-", "1">>, KDD_KINDS[9], L_behavior,
                <<"b", "/", "U", "C", "-", "1", "-", "X", ".", "m", "d">>, <<>>),
       Document(<<"U", "I", "-", "1">>, KDD_KINDS[10], L_experience,
                <<"e", "/", "U", "I", "-", "1", ".", "m", "d">>, <<>>),
       Document(<<"U", "I", "-", "2">>, KDD_KINDS[11], L_experience,
                <<"e", "/", "U", "I", "-", "2", ".", "m", "d">>, <<>>),
       Document(<<"R", "E", "Q", "-", "1">>, KDD_KINDS[12], L_verification,
                <<"v", "/", "R", "E", "Q", "-", "1", ".", "m", "d">>, <<>>),
       Document(<<"O", "B", "J", "-", "1">>, KDD_KINDS[13], L_requirements,
                <<"r", "/", "O", "B", "J", "-", "1", ".", "m", "d">>, <<>>),
       Document(<<"P", "R", "D", "-", "1">>, KDD_KINDS[14], L_requirements,
                <<"r", "/", "P", "R", "D", "-", "1", ".", "m", "d">>, <<>>),
       Document(<<"A", "D", "R", "-", "1">>, KDD_KINDS[15], L_requirements,
                <<"r", "/", "A", "D", "R", "-", "1", ".", "m", "d">>, <<>>),
       Document(<<"G", "l">>, KDD_KINDS[16], L_domain,
                <<"d", "/", "G", "l", ".", "m", "d">>, <<>>) >>

\* the entity document Cd.md whose text is one link to name
LinkingDocument(name) ==
    Document(S_Cd, K_entity, L_domain, <<"d", "/", "C", "d", ".", "m", "d">>,
             <<Section(<<"D", "e", "s", "c", "r", "i", "p", "t", "i", "o", "n">>,
                       <<"[", "[">> \o name \o <<"]", "]">>)>>)

\* the edges the lists to deduplicate are made of: two of them differ in the
\* flag alone, two in the type alone
EdgePool ==
    {GraphEdge(N_A.id, N_B.id, T_WIKI_LINK, TRUE),
     GraphEdge(N_A.id, N_B.id, T_WIKI_LINK, FALSE),
     GraphEdge(N_A.id, N_B.id, T_EMITS, FALSE),
     GraphEdge(N_B.id, N_A.id, T_WIKI_LINK, FALSE)}

\* the extractor's result: the list it collected and the list it returns
Extracted(document, raw, edges) ==
    /\ last' = [op |-> "extractEdges", document |-> document, raw |-> raw,
                edges |-> edges]
    /\ UNCHANGED <<storeVars, vectorVars, diskVars, cliVars>>

ExtractEdges(document) ==
    Extracted(document, collectEdges(document), extractEdgesOf(document))

DeduplicateEdges(x) ==
    /\ last' = [op |-> "deduplicateEdges", x |-> x, edges |-> deduplicateEdges(x),
                again |-> deduplicateEdges(deduplicateEdges(x))]
    /\ UNCHANGED <<storeVars, vectorVars, diskVars, cliVars>>

\* the store loads the nodes and the edges extracted from the two documents
LoadPair(source, target, extractedNodes, extractedEdges) ==
    LET st == storeLoad(extractedNodes, extractedEdges)
    IN  /\ graphNodes' = st.gn
        /\ graphEdges' = st.ge
        /\ nodes' = st.nodes
        /\ last' = [op |-> "indexPair", source |-> source, target |-> target,
                    edges |-> extractedEdges]
        /\ UNCHANGED <<vectorVars, diskVars, cliVars>>

IndexPair(source, target) ==
    LoadPair(source, target,
             <<extractNodeOf(target, 0), extractNodeOf(source, 0)>>,
             extractEdgesOf(source) \o extractEdgesOf(target))

ExtractEdgesAny ==
    /\ last.op = "new"
    /\ \E document \in Documents : ExtractEdges(document)

DeduplicateEdgesAny ==
    /\ last.op = "new"
    /\ \E x \in SeqsUpTo(EdgePool, MaxListLen) : DeduplicateEdges(x)

IndexPairAny ==
    /\ last.op = "new"
    /\ \E t \in 1..Len(TargetDocuments) :
          \E name \in {TargetDocuments[t].id,
                       basename(TargetDocuments[t].source_path, S_md)} :
              IndexPair(LinkingDocument(name), TargetDocuments[t])

NextExtract == ExtractEdgesAny \/ DeduplicateEdgesAny \/ IndexPairAny

SpecExtract == Init /\ [][NextExtract]_vars

\* C18: every edge an extractor returns, of any type, is flagged exactly when
\* the document's layer is not requirements and is numerically lower than the
\* layer of the destination's ID prefix; an edge from a 01-domain document to a
\* UC target is flagged, and one from 02-behavior to an entity, from
\* 00-requirements, or within one layer is not
C18_EveryEdgeFollowsLayerRule ==
    last.op = "extractEdges" =>
        \A e \in Range(last.edges) :
            LET origin == last.document.layer
                destination == guessLayerFromNodeId(e.to_node)
            IN  /\ e.layer_violation <=>
                      (/\ origin # L_requirements
                       /\ LAYER_NUMERIC(origin) < LAYER_NUMERIC(destination))
                /\ (origin = L_domain /\ StartsWith(e.to_node, <<"U", "C", ":">>))
                      => e.layer_violation
                /\ (\/ origin = L_requirements
                    \/ origin = destination
                    \/ (origin = L_behavior
                        /\ StartsWith(e.to_node, <<"E", "n", "t", "i", "t", "y", ":">>)))
                      => ~e.layer_violation

\* the document a wiki link names: by its id or by the name of its file
Names(link, document) ==
    \/ link.target = document.id
    \/ link.target = basename(document.source_path, S_md)

\* C19: for every wiki link of a document that names another indexed document,
\* of any of the 16 kinds, the WIKI_LINK edge ends at the node ID of that
\* document, prefix(kind):documentId, and the loaded store holds the edge
C19_LinkReachesIndexedNode ==
    last.op = "indexPair" =>
        \A link \in Range(extractWikiLinks(fullContent(last.source.sections))) :
            Names(link, last.target) =>
                LET from == makeNodeId(last.source.kind, last.source.id)
                    to == makeNodeId(last.target.kind, last.target.id)
                IN  /\ \E e \in Range(last.edges) :
                          /\ e.edge_type = T_WIKI_LINK
                          /\ e.from_node = from
                          /\ e.to_node = to
                    /\ <<from, to, T_WIKI_LINK>> \in storedTriples

\* the key deduplicateEdges tells edges apart by
DedupKey(e) == <<e.from_node, e.to_node, e.edge_type>>

\* the first edge of each key, in input order
FirstOfEachKey(x) ==
    LET keep == {i \in 1..Len(x) : \A j \in 1..(i - 1) : DedupKey(x[j]) # DedupKey(x[i])}
    IN  SubList(x, keep, 1)

\* C20: deduplicateEdges keeps the first edge of each (from_node, to_node,
\* edge_type) key in input order and nothing else, so no two edges an extractor
\* returns share a key, and deduplicating twice gives what deduplicating once gives
C20_DeduplicateKeepsFirst ==
    /\ last.op = "deduplicateEdges" =>
          /\ last.edges = FirstOfEachKey(last.x)
          /\ last.again = last.edges
    /\ last.op = "extractEdges" =>
          /\ last.edges = FirstOfEachKey(last.raw)
          /\ \A i, j \in 1..Len(last.edges) :
                DedupKey(last.edges[i]) = DedupKey(last.edges[j]) => i = j
          /\ deduplicateEdges(last.edges) = last.edges

\* a list of three edges whose first and third share a key and differ in the
\* flag: the first is kept, the third dropped
C20_Witness ==
    /\ last.op = "deduplicateEdges"
    /\ Len(last.x) = 3 /\ Len(last.edges) = 2
    /\ DedupKey(last.x[1]) = DedupKey(last.x[3])
    /\ last.x[1] # last.x[3]
    /\ last.edges[1] = last.x[1]

-----------------------------------------------------------------------------
(* Specification SpecServe: the index is loaded once and the process then
   answers a sequence of queries of the six kinds *)

MaxQueries == 2

\* the number of queries answered so far
Served == IF last.op \in {"new", "load"} THEN 0 ELSE last.served

\* createContainer, with the vector store and the encoder each null or set
ServeLoad ==
    /\ last.op = "new"
    /\ \E vs \in BOOLEAN, enc \in BOOLEAN :
          LET st == storeLoad(GraphNodeList, GraphEdgeList)
          IN  /\ graphNodes' = st.gn
              /\ graphEdges' = st.ge
              /\ nodes' = st.nodes
              /\ vectorStore' = IF vs THEN [present |-> TRUE, ids |-> EmbeddingIds,
                                            vectors |-> EmbeddingVectors]
                                ELSE vectorStore
              /\ encodeFn' = enc
              /\ last' = [op |-> "load", threw |-> st.threw]
              /\ UNCHANGED <<diskVars, cliVars>>

\* a query returns: the stores are what its calls left them
Serve(op, input, result, calls, encodes) ==
    LET st == storeAfterCalls(theStore, calls)
    IN  /\ graphNodes' = st.gn
        /\ graphEdges' = st.ge
        /\ nodes' = st.nodes
        /\ vectorStore' = IF \E i \in 1..Len(calls) : calls[i] = "vectorStore.search"
                          THEN vectorAfterSearch(vectorStore)
                          ELSE vectorStore
        /\ encodeFn' = encodeFn
        /\ last' = [op |-> op, served |-> Served + 1, input |-> input,
                    result |-> result, calls |-> calls, encodes |-> encodes]
        /\ UNCHANGED <<diskVars, cliVars>>

ServeHybridSearch(input, r) ==
    Serve("hybridSearch", input, r, r.calls,
          hybridSearchEncodes(input, vectorStore, encodeFn))

ServeSemanticQuery(input, r) ==
    Serve("semanticQuery", input, r, r.calls, semanticQueryEncodes(input))

ServeGraphQuery(input, r) == Serve("graphQuery", input, r, graphQueryCalls(r), 0)

ServeImpactQuery(input, r) ==
    Serve("impactQuery", input, r, impactQueryCalls(input, r), 0)

ServeCoverageQuery(input, r) ==
    Serve("coverageQuery", input, r, coverageQueryCalls(r), 0)

ServeViolationsQuery(input, r) ==
    Serve("violationsQuery", input, r, violationsQueryCalls(theStore), 0)

ServeHybridSearchAny ==
    /\ last.op # "new" /\ Served < MaxQueries
    /\ \E queryText \in {Q_padded, Q_Ab}, expandGraph \in BOOLEAN, qv \in QueryVectors :
          \E input \in {[queryText |-> queryText, expandGraph |-> expandGraph,
                         depth |-> 2, includeKinds |-> NoValue, includeLayers |-> NoValue,
                         respectLayers |-> TRUE, minScore |-> 5, limit |-> MaxLimit,
                         maxTokens |-> 8000]} :
              ServeHybridSearch(input,
                                hybridSearch(input, theStore, vectorStore, encodeFn, qv))

ServeSemanticQueryAny ==
    /\ last.op # "new" /\ Served < MaxQueries
    /\ vectorStore.present /\ encodeFn
    /\ \E queryText \in {Q_padded, Q_Ab}, qv \in QueryVectors :
          \E input \in {[queryText |-> queryText, includeKinds |-> NoValue,
                         includeLayers |-> NoValue, minScore |-> 70,
                         limit |-> MaxLimit]} :
              ServeSemanticQuery(input, semanticQuery(input, theStore, vectorStore, qv))

ServeGraphQueryAny ==
    /\ last.op # "new" /\ Served < MaxQueries
    /\ \E rootNode \in {N_A.id, UnknownId}, respectLayers \in BOOLEAN :
          \E input \in {[rootNode |-> rootNode, depth |-> Unset, edgeTypes |-> NoValue,
                         includeKinds |-> NoValue, respectLayers |-> respectLayers]} :
              ServeGraphQuery(input, graphQuery(input, theStore))

ServeImpactQueryAny ==
    /\ last.op # "new" /\ Served < MaxQueries
    /\ \E nodeId \in {N_B.id, UnknownId}, depth \in {Unset, 1} :
          \E input \in {[nodeId |-> nodeId, changeType |-> <<>>, depth |-> depth]} :
              ServeImpactQuery(input, impactQuery(input, theStore))

ServeCoverageQueryAny ==
    /\ last.op # "new" /\ Served < MaxQueries
    /\ \E nodeId \in {N_A.id, N_C.id, UnknownId} :
          \E input \in {[nodeId |-> nodeId]} :
              ServeCoverageQuery(input, coverageQuery(input, theStore))

ServeViolationsQueryAny ==
    /\ last.op # "new" /\ Served < MaxQueries
    /\ \E includeKinds \in {NoValue, <<K_event>>}, includeLayers \in {NoValue, <<L_behavior>>} :
          \E input \in {[includeKinds |-> includeKinds, includeLayers |-> includeLayers]} :
              ServeViolationsQuery(input, violationsQuery(input, theStore))

NextServe ==
    \/ ServeLoad
    \/ ServeHybridSearchAny
    \/ ServeSemanticQueryAny
    \/ ServeGraphQueryAny
    \/ ServeImpactQueryAny
    \/ ServeCoverageQueryAny
    \/ ServeViolationsQueryAny

SpecServe == Init /\ [][NextServe]_vars

ServeOps ==
    {"hybridSearch", "semanticQuery", "graphQuery", "impactQuery", "coverageQuery",
     "violationsQuery"}

-----------------------------------------------------------------------------
(* Specification SpecChunk: a process chunks one document *)

MaxBody == 6

\* section bodies: every text of up to MaxBody characters over a letter, a full
\* stop and a line break
Bodies == SeqsUpTo({"a", ".", "\n"}, MaxBody)

\* the entity document Ab whose Description section holds body
BodyDocument(body) ==
    Document(S_Ab, K_entity, L_domain, <<"d", "/", "A", "b", ".", "m", "d">>,
             <<Section(<<"D", "e", "s", "c", "r", "i", "p", "t", "i", "o", "n">>, body)>>)

\* documents of several sections: an event (no embeddable section), an entity
\* with a section that is not embeddable between two that are, a use case with a
\* blank section
SectionedDocuments ==
    LET description(body) ==
            Section(<<"D", "E", "S", "C", "R", "I", "P", "T", "I", "O", "N">>, body)
        text == <<"a", "a", "\n", "\n", "a", "a", "a">>
    IN  { Document(S_EVTx, K_event, L_domain, <<"d", "/", "e", ".", "m", "d">>,
                   <<description(text)>>),
          Document(S_Ab, K_entity, L_domain, <<"d", "/", "A", "b", ".", "m", "d">>,
                   <<description(text), Section(<<"N", "o", "t", "e", "s">>, text),
                     description(<<"a", ".", "\n", "a", ".", " ", "a", "a", "a", ".">>)>>),
          Document(S_UC1, K_use_case, L_behavior, <<"b", "/", "u", ".", "m", "d">>,
                   <<description(<<" ", "\n">>),
                     Section(<<"M", "a", "i", "n", " ", "F", "l", "o", "w">>, text)>>) }

ChunkDocument(document, maxChunkChars, overlapChars, chunks) ==
    /\ last' = [op |-> "chunkDocument", document |-> document,
                maxChunkChars |-> maxChunkChars, overlapChars |-> overlapChars,
                chunks |-> chunks]
    /\ UNCHANGED <<storeVars, vectorVars, diskVars, cliVars>>

ChunkBodyAny ==
    /\ last.op = "new"
    /\ \E body \in Bodies, maxChunkChars \in {MaxBody - 2, MaxBody - 1},
          overlapChars \in {0, 1, 2, MaxBody} :
          ChunkDocument(BodyDocument(body), maxChunkChars, overlapChars,
                        chunkDocument(BodyDocument(body), maxChunkChars, overlapChars))

ChunkSectionsAny ==
    /\ last.op = "new"
    /\ \E document \in SectionedDocuments, maxChunkChars \in {3, MaxBody},
          overlapChars \in {0, 2} :
          ChunkDocument(document, maxChunkChars, overlapChars,
                        chunkDocument(document, maxChunkChars, overlapChars))

NextChunk == ChunkBodyAny \/ ChunkSectionsAny

SpecChunk == Init /\ [][NextChunk]_vars


\* the paragraphs of a body that are not blank, trimmed
ParagraphsOf(body) ==
    LET raw == Split(body, <<"\n", "\n">>)
    IN  SelectSeq([i \in 1..Len(raw) |-> Trim(raw[i])], LAMBDA p : p # <<>>)

\* the document has one section, embeddable and not blank
OneBody(document) ==
    /\ Len(document.sections) = 1
    /\ ToLowerCase(document.sections[1].heading) \in embeddableSections(document.kind)
    /\ Trim(document.sections[1].content) # <<>>

\* C22: an embeddable section whose body is max_chunk_chars long or shorter
\* gives exactly one chunk, however the body divides into paragraphs, and a body
\* of max_chunk_chars + 1 characters with a paragraph break gives two chunks
C22_ExactFitOneChunk ==
    (last.op = "chunkDocument" /\ OneBody(last.document)) =>
        LET body == last.document.sections[1].content
        IN  /\ Len(body) <= last.maxChunkChars => Len(last.chunks) = 1
            /\ (Len(body) = last.maxChunkChars + 1 /\ Len(ParagraphsOf(body)) >= 2)
                  => Len(last.chunks) = 2

\* C26: when every paragraph and every sentence of every section body is at most
\* max_chunk_chars long, every chunk's raw content is at most max_chunk_chars
\* long, whatever overlap_chars is; the chunk IDs are documentId:chunk-0,
\* chunk-1, ... in emission order
C26_ChunksWithinMax ==
    last.op = "chunkDocument" =>
        /\ (\A s \in 1..Len(last.document.sections) :
              \A p \in Range(ParagraphsOf(last.document.sections[s].content)) :
                 /\ Len(p) <= last.maxChunkChars
                 /\ \A t \in Range(splitSentences(p)) : Len(t) <= last.maxChunkChars)
              => \A i \in 1..Len(last.chunks) :
                    Len(last.chunks[i].content) <= last.maxChunkChars
        /\ \A i \in 1..Len(last.chunks) :
              last.chunks[i].chunk_id
                 = last.document.id \o S_chunk \o NumberToString(i - 1)

-----------------------------------------------------------------------------
(* Specification SpecVector: a vector store on its own.  load replaces the ids
   and the vectors; search reads them.  The vectors include the zero vector,
   as a stored vector and as a query. *)

MaxEmbeddings == 2

StoreVectors == {<<0, 0>>, <<1, 0>>, <<3, 4>>}
StoreIds == <<S_Ab \o S_chunk0, S_UC1 \o S_chunk0, S_Zz \o S_chunk0>>

\* VectorStore.load(embeddings)
vectorStoreLoad(embeddings) ==
    [present |-> TRUE,
     ids |-> [i \in 1..Len(embeddings) |-> embeddings[i].id],
     vectors |-> [i \in 1..Len(embeddings) |-> embeddings[i].vector]]

VectorLoad(embeddings) ==
    /\ vectorStore' = vectorStoreLoad(embeddings)
    /\ last' = [op |-> "vectorLoad"]
    /\ UNCHANGED <<storeVars, encodeFn, diskVars, cliVars>>

VectorSearch(qv, limit, minScore) ==
    /\ vectorStore.present
    /\ last' = [op |-> "vectorSearch", qv |-> qv, limit |-> limit, minScore |-> minScore,
                results |-> vectorSearch(vectorStore, qv, limit, 10 * minScore)]
    /\ UNCHANGED <<storeVars, vectorVars, diskVars, cliVars>>

VectorLoadAny ==
    \E n \in 0..MaxEmbeddings : \E vectors \in [1..n -> StoreVectors] :
        VectorLoad([i \in 1..n |-> [id |-> StoreIds[i], vector |-> vectors[i]]])

VectorSearchAny ==
    \E qv \in StoreVectors, limit \in 0..MaxLimit, minScore \in {0, 50, 100} :
        VectorSearch(qv, limit, minScore)

NextVector == VectorLoadAny \/ VectorSearchAny

SpecVector == Init /\ [][NextVector]_vars

\* the positions of the stored vectors whose norm is zero
ZeroNormStored == {i \in 1..Len(vectorStore.vectors) : norm(vectorStore.vectors[i]) = 0}

\* C23: VectorStore.search returns no results whenever the query vector or any
\* stored vector has zero norm.
C23_ZeroNormNoResults ==
    (last.op = "vectorSearch" /\ (norm(last.qv) = 0 \/ ZeroNormStored # {}))
        => last.results = <<>>

\* C23, amended: VectorStore.search returns no results whenever the query
\* vector has zero norm, and a stored vector of zero norm is never among the
\* results; the other stored vectors are still scored and returned.
C23_ZeroNormSkipped ==
    last.op = "vectorSearch" =>
        /\ norm(last.qv) = 0 => last.results = <<>>
        /\ \A i \in ZeroNormStored, k \in 1..Len(last.results) :
              last.results[k].id # vectorStore.ids[i]
        /\ \A i \in 1..Len(vectorStore.vectors) \ ZeroNormStored :
              (/\ norm(last.qv) # 0
               /\ dot(last.qv, vectorStore.vectors[i]) = norm(last.qv) * norm(vectorStore.vectors[i])
               /\ \A j \in 1..(i - 1) : j \in ZeroNormStored
               /\ last.limit > 0)
                  => \E k \in 1..Len(last.results) : last.results[k].id = vectorStore.ids[i]

\* a search with a zero-norm stored vector beside one that equals the query
C23_Witness ==
    /\ last.op = "vectorSearch"
    /\ ZeroNormStored = {1}
    /\ Len(vectorStore.vectors) = 2
    /\ norm(last.qv) # 0
    /\ Len(last.results) = 1
    /\ last.results[1].id = vectorStore.ids[2]
    /\ last.results[1].score = 100

-----------------------------------------------------------------------------
(* Graph query scores, under SpecQuery *)

\* the breadth-first distance of the node from the root over the edges E taken
\* in both directions; -1 when the node is not reached
GraphDistance(root, nodeId, E) ==
    IF nodeId \notin Within({root}, E, Cardinality(E)) THEN -1
    ELSE CHOOSE k \in 0..Cardinality(E) :
            /\ nodeId \in Within({root}, E, k)
            /\ k = 0 \/ nodeId \notin Within({root}, E, k - 1)

GraphDepth == IF last.depth = Unset THEN 2 ELSE last.depth

\* C24: graphQuery gives every related node the score 1/(1+k), k the node's
\* breadth-first distance from the root over the stored edges that pass the
\* filters, with 1 <= k <= depth; the fallback distance 999 is never used, also
\* when includeKinds removes nodes; relatedNodes is sorted by non-increasing
\* score and never contains the root
C24_ScoreIsBfsDistance ==
    (last.op = "graphQuery" /\ last.result.error = "none") =>
        LET related == last.result.relatedNodes
            E == PassingEdges(NoValue, last.respectLayers)
        IN  /\ \A i \in 1..Len(related) :
                  LET k == GraphDistance(last.nodeId, related[i].node_id, E)
                  IN  /\ related[i].score = [num |-> 1, den |-> 1 + k]
                      /\ 1 <= k /\ k <= GraphDepth
                      /\ related[i].score.den # 1 + 999
                      /\ related[i].node_id # last.nodeId
            /\ \A i, j \in 1..Len(related) :
                  i < j => related[i].score.den <= related[j].score.den

\* a graph query of depth 3 whose only related node is three steps from the
\* root, the two nodes between them removed by includeKinds
C24_Witness ==
    /\ last.op = "graphQuery"
    /\ last.result.error = "none"
    /\ last.includeKinds # NoValue
    /\ Len(last.result.relatedNodes) = 1
    /\ last.result.relatedNodes[1].score = [num |-> 1, den |-> 4]
    /\ Len(last.result.edges) = 3

-----------------------------------------------------------------------------
(* Specification SpecContainer: the MCP server process.  The module variable
   container starts undefined; every tool request runs the handler, which
   awaits getContainer.  A handler runs without interruption up to an await
   that has to wait, so a request is three steps: the handler up to the
   await inside createContainer (or, with a container set, up to its own
   await), the continuation of getContainer after createContainer settled,
   and the answer.  cli holds the process: container is 0 for undefined and
   otherwise the number of the createContainer call that built the instances. *)

MaxRequests == 3

Requests == 1..MaxRequests

\* an index without documents, as the index command leaves it
EmptyManifest ==
    [exists |-> TRUE,
     data |-> [index_level |-> "L1", indexed_at |-> 0,
               stats |-> [nodes |-> 0, edges |-> 0, embeddings |-> 0]]]

\* the server process starts, on an index tree or on a directory without one
ServerStart(indexed) ==
    /\ last.op = "new"
    /\ cli.pc = "idle"
    /\ manifestFile' = IF indexed THEN EmptyManifest ELSE manifestFile
    /\ edgesFile' = IF indexed THEN [exists |-> TRUE, lines |-> <<>>] ELSE edgesFile
    /\ cli' = [pc |-> "server", container |-> 0, created |-> 0,
               requests |-> [r \in Requests |-> [pc |-> "none", building |-> 0, c |-> 0]]]
    /\ last' = [op |-> "start"]
    /\ UNCHANGED <<storeVars, vectorVars, nodeFiles, embFiles, clock>>

\* the handler starts on a request: getContainer tests !container, and either
\* calls createContainer, which suspends at its first await, or returns the
\* container it read
ToolRequest(r) ==
    /\ cli.pc = "server"
    /\ cli.requests[r].pc = "none"
    /\ cli' = IF cli.container = 0
              THEN [cli EXCEPT !.created = @ + 1,
                               !.requests[r] = [pc |-> "creating", building |-> cli.created + 1,
                                                c |-> 0]]
              ELSE [cli EXCEPT !.requests[r] = [pc |-> "serving", building |-> 0,
                                                c |-> cli.container]]
    /\ last' = [op |-> "request", r |-> r]
    /\ UNCHANGED <<storeVars, vectorVars, diskVars, manifestFile>>

\* the createContainer call of the request settles: on success getContainer
\* assigns container and returns it; a rejection leaves container as it is
\* and fails the request
CreateSettles(r, built) ==
    /\ cli.pc = "server"
    /\ cli.requests[r].pc = "creating"
    /\ IF built.threw
       THEN /\ cli' = [cli EXCEPT !.requests[r].pc = "rejected"]
            /\ UNCHANGED <<storeVars, vectorVars>>
       ELSE /\ cli' = [cli EXCEPT !.container = cli.requests[r].building,
                                  !.requests[r] = [pc |-> "serving", building |-> 0,
                                                   c |-> cli.requests[r].building]]
            /\ graphNodes' = built.store.gn
            /\ graphEdges' = built.store.ge
            /\ nodes' = built.store.nodes
            /\ vectorStore' = built.vectorStore
            /\ encodeFn' = built.encodeFn
    /\ last' = [op |-> "createContainer", r |-> r, threw |-> built.threw]
    /\ UNCHANGED <<diskVars, manifestFile>>

\* the handler answers the request from the container it was given
ToolRespond(r) ==
    /\ cli.pc = "server"
    /\ cli.requests[r].pc = "serving"
    /\ cli' = [cli EXCEPT !.requests[r].pc = "done"]
    /\ last' = [op |-> "respond", r |-> r, c |-> cli.requests[r].c]
    /\ UNCHANGED <<storeVars, vectorVars, diskVars, manifestFile>>

ServerStartAny == \E indexed \in BOOLEAN : ServerStart(indexed)
ToolRequestAny == \E r \in Requests : ToolRequest(r)
CreateSettlesAny ==
    \E r \in Requests :
        CreateSettles(r, createContainer(manifestFile, <<>>, edgesFile, <<>>))
ToolRespondAny == \E r \in Requests : ToolRespond(r)

NextContainer == ServerStartAny \/ ToolRequestAny \/ CreateSettlesAny \/ ToolRespondAny

SpecContainer == Init /\ [][NextContainer]_vars

\* the requests that were given a container
ServedRequests == {r \in Requests : cli.requests[r].pc \in {"serving", "done"}}

\* C25: under any interleaving of tool requests createContainer runs at most
\* once in the process, and every request is served from the same instances
C25_ContainerBuiltOnce ==
    cli.pc = "server" =>
        /\ cli.created <= 1
        /\ \A r, q \in ServedRequests : cli.requests[r].c = cli.requests[q].c

-----------------------------------------------------------------------------
(* Double-precision arithmetic, as the scores of hybridSearch are computed.  A
   natural number is the sequence of its digits to the base 2^15, lowest
   first, without leading zeros; a positive double is [m, e] for m * 2^e with
   m of 53 binary digits, and zero has the empty m.  Sums, products and
   quotients are rounded to nearest, ties to even. *)

LimbBits == 15
LimbBase == 2 ^ LimbBits
DoubleDigits == 53

HeadOrZero(a) == IF a = <<>> THEN 0 ELSE Head(a)
TailOrEmpty(a) == IF a = <<>> THEN <<>> ELSE Tail(a)

RECURSIVE LNorm(_)
LNorm(a) == IF a = <<>> THEN <<>> ELSE IF a[Len(a)] # 0 THEN a ELSE LNorm(SubSeq(a, 1, Len(a) - 1))

RECURSIVE LInt(_)
LInt(n) == IF n = 0 THEN <<>> ELSE <<n % LimbBase>> \o LInt(n \div LimbBase)

\* a + b + c for a carry c
RECURSIVE LAddC(_, _, _)
LAddDigit(a, b, s) == <<s % LimbBase>> \o LAddC(TailOrEmpty(a), TailOrEmpty(b), s \div LimbBase)

LAddC(a, b, c) ==
    IF a = <<>> /\ b = <<>> THEN (IF c = 0 THEN <<>> ELSE <<c>>)
    ELSE LAddDigit(a, b, HeadOrZero(a) + HeadOrZero(b) + c)

LAdd(a, b) == LAddC(a, b, 0)

\* a - b - c for a borrow c and a >= b + c
RECURSIVE LSubC(_, _, _)
LSubDigit(a, b, s) ==
    <<s % LimbBase>> \o LSubC(Tail(a), TailOrEmpty(b), IF s < 0 THEN 1 ELSE 0)

LSubC(a, b, c) == IF a = <<>> THEN <<>> ELSE LSubDigit(a, b, Head(a) - HeadOrZero(b) - c)

LSub(a, b) == LNorm(LSubC(a, b, 0))

RECURSIVE LLessFrom(_, _, _)
LLessFrom(a, b, i) ==
    IF i = 0 THEN FALSE
    ELSE IF a[i] # b[i] THEN a[i] < b[i]
    ELSE LLessFrom(a, b, i - 1)

LLess(a, b) == IF Len(a) # Len(b) THEN Len(a) < Len(b) ELSE LLessFrom(a, b, Len(a))

\* a * d + c for one digit d
RECURSIVE LMulC(_, _, _)
LMulDigit(a, d, s) == <<s % LimbBase>> \o LMulC(Tail(a), d, s \div LimbBase)

LMulC(a, d, c) ==
    IF a = <<>> THEN (IF c = 0 THEN <<>> ELSE <<c>>) ELSE LMulDigit(a, d, Head(a) * d + c)

LTimes(a, d) == LNorm(LMulC(a, d, 0))

LTimesBase(a) == IF a = <<>> THEN <<>> ELSE <<0>> \o a

RECURSIVE LMul(_, _)
LMul(a, b) ==
    IF a = <<>> \/ b = <<>> THEN <<>>
    ELSE LAdd(LTimes(b, Head(a)), LTimesBase(LMul(Tail(a), b)))

\* the number of binary digits of a
LBits(a) ==
    IF a = <<>> THEN 0
    ELSE LimbBits * (Len(a) - 1)
            + (CHOOSE n \in 1..LimbBits : 2 ^ (n - 1) <= a[Len(a)] /\ a[Len(a)] < 2 ^ n)

\* a * 2^k
LShl(a, k) ==
    IF a = <<>> THEN <<>>
    ELSE [i \in 1..(k \div LimbBits) |-> 0] \o LMulC(a, 2 ^ (k % LimbBits), 0)

DigitAt(a, i) == IF i > Len(a) THEN 0 ELSE a[i]

\* a divided by 2^k, rounded down
LShr(a, k) ==
    LNorm([i \in 1..(Len(a) - k \div LimbBits) |->
              DigitAt(a, i + k \div LimbBits) \div 2 ^ (k % LimbBits)
                 + (DigitAt(a, i + k \div LimbBits + 1) % 2 ^ (k % LimbBits))
                      * 2 ^ (LimbBits - (k % LimbBits))])

\* the binary digit of a at position i, 0 the lowest
LBit(a, i) == (a[i \div LimbBits + 1] \div 2 ^ (i % LimbBits)) % 2

\* whether a binary digit of a below position i is 1
LAnyBelow(a, i) ==
    \/ \E j \in 1..(i \div LimbBits) : a[j] # 0
    \/ a[i \div LimbBits + 1] % 2 ^ (i % LimbBits) # 0

\* the largest d = base + c * unit, c in 0..31, with d * b <= r, given that
\* base * b <= r
LQuotStep(r, b, base, unit) ==
    base + unit * (CHOOSE c \in 0..31 :
                      /\ ~LLess(r, LTimes(b, base + c * unit))
                      /\ c = 31 \/ LLess(r, LTimes(b, base + (c + 1) * unit)))

\* the largest digit d with d * b <= r, five binary digits at a time
LQuotDigit(r, b) == LQuotStep(r, b, LQuotStep(r, b, LQuotStep(r, b, 0, 1024), 32), 1)

\* long division of a by b, from the highest digit of a: [q, r]
RECURSIVE LDivLoop(_, _, _, _, _)
LDivDigit(a, i, b, q, r, d) == LDivLoop(a, i - 1, b, <<d>> \o q, LSub(r, LTimes(b, d)))

LDivStep(a, i, b, q, r) == LDivDigit(a, i, b, q, r, LQuotDigit(r, b))

LDivLoop(a, i, b, q, r) ==
    IF i = 0 THEN [q |-> LNorm(q), r |-> r]
    ELSE LDivStep(a, i, b, q, LNorm(<<a[i]>> \o r))

LDivMod(a, b) == LDivLoop(a, Len(a), b, <<>>, <<>>)

DZero == [m |-> <<>>, e |-> 0]

\* m * 2^e for m of 53 or 54 binary digits
DCarry(m, e) == IF LBits(m) > DoubleDigits THEN [m |-> LShr(m, 1), e |-> e + 1] ELSE [m |-> m, e |-> e]

\* n * 2^e without its k lowest binary digits, rounded
DCut(n, e, k, kept) ==
    DCarry(IF LBit(n, k - 1) = 1 /\ (LAnyBelow(n, k - 1) \/ LBit(kept, 0) = 1)
           THEN LAdd(kept, <<1>>) ELSE kept,
           e + k)

\* n * 2^e for n of bits binary digits, rounded to a double
DRoundBits(n, e, bits) ==
    IF bits <= DoubleDigits
    THEN [m |-> LShl(n, DoubleDigits - bits), e |-> e - (DoubleDigits - bits)]
    ELSE DCut(n, e, bits - DoubleDigits, LShr(n, bits - DoubleDigits))

DRound(n, e) == IF n = <<>> THEN DZero ELSE DRoundBits(n, e, LBits(n))

DInt(n) == DRound(LInt(n), 0)

DAlign(x, e) == LShl(x.m, x.e - e)

DAdd(x, y) ==
    IF x.m = <<>> THEN y
    ELSE IF y.m = <<>> THEN x
    ELSE DRound(LAdd(DAlign(x, Min(x.e, y.e)), DAlign(y, Min(x.e, y.e))), Min(x.e, y.e))

DMul(x, y) == DRound(LMul(x.m, y.m), x.e + y.e)

\* the quotient carries 60 further binary digits and one more that tells
\* whether the division left a remainder
DQuot(qr, e) == DRound(LAdd(LShl(qr.q, 1), IF qr.r = <<>> THEN <<>> ELSE <<1>>), e)

DDiv(x, y) ==
    IF x.m = <<>> THEN DZero ELSE DQuot(LDivMod(LShl(x.m, 60), y.m), x.e - y.e - 61)

DLess(x, y) ==
    IF y.m = <<>> THEN FALSE
    ELSE IF x.m = <<>> THEN TRUE
    ELSE LLess(DAlign(x, Min(x.e, y.e)), DAlign(y, Min(x.e, y.e)))

DMin(x, y) == IF DLess(y, x) THEN y ELSE x

\* the double a decimal literal n/d denotes
DLiteral(n, d) == DDiv(DInt(n), DInt(d))


-----------------------------------------------------------------------------
(* Fusion scoring in double precision *)

\* an evidence score of the inner map, a number of hundredths, as the double
\* the code holds: 0.5 for the lexical and the graph evidence, the quotient
\* dot / (qNorm * norm) for the semantic evidence
evidenceDouble(hundredths) == IF hundredths = Unset THEN DZero ELSE DLiteral(hundredths, 100)

WEIGHT_SEMANTIC_D == DLiteral(6, 10)
WEIGHT_GRAPH_D == DLiteral(3, 10)
WEIGHT_LEXICAL_D == DLiteral(1, 10)

\* WEIGHT_SEMANTIC + WEIGHT_GRAPH + WEIGHT_LEXICAL + 0.2
FUSION_DIVISOR_D ==
    DAdd(DAdd(DAdd(WEIGHT_SEMANTIC_D, WEIGHT_GRAPH_D), WEIGHT_LEXICAL_D), DLiteral(2, 10))

\* the sources of the inner map with a positive score
sourceCountOf(sources) == Cardinality({k \in {"semantic", "graph", "lexical"} : sources[k] > 0})

\* semantic * WEIGHT_SEMANTIC + graph * WEIGHT_GRAPH + lexical * WEIGHT_LEXICAL
weightedEvidence(sources) ==
    DAdd(DAdd(DMul(evidenceDouble(sources.semantic), WEIGHT_SEMANTIC_D),
              DMul(evidenceDouble(sources.graph), WEIGHT_GRAPH_D)),
         DMul(evidenceDouble(sources.lexical), WEIGHT_LEXICAL_D))

\* sourceCount > 1 ? 0.1 * (sourceCount - 1) : 0
fusionBonus(sourceCount) ==
    IF sourceCount > 1 THEN DMul(DLiteral(1, 10), DInt(sourceCount - 1)) ELSE DZero

\* computeFusionScore(sources) with a bonus of 0.1 for every source
computeFusionScoreDoubleBonusEach(sources) ==
    DMin(DDiv(DAdd(weightedEvidence(sources),
                   DMul(DLiteral(1, 10), DInt(sourceCountOf(sources)))),
              FUSION_DIVISOR_D),
         DInt(1))

\* computeFusionScore(sources) as the code computes it: every product, sum and
\* quotient is a double
computeFusionScoreDouble(sources) ==
    DMin(DDiv(DAdd(weightedEvidence(sources), fusionBonus(sourceCountOf(sources))),
              FUSION_DIVISOR_D),
         DInt(1))

\* Phase 4, the loop over the evidenced nodes, with the scores as doubles;
\* minScore is a number of hundredths given as a decimal
RECURSIVE fusionPhaseDouble(_, _, _)
fusionStepDouble(sources, score, m, input) ==
    IF ~mapHas(m, sources.id) THEN <<>>
    ELSE IF ~kindLayerFilter(mapGet(m, sources.id), input.includeKinds, input.includeLayers)
    THEN <<>>
    ELSE IF DLess(score, DLiteral(input.minScore, 100)) THEN <<>>
    ELSE <<[node_id |-> sources.id, score |-> score, sources |-> sources,
            snippet |-> buildSnippet(mapGet(m, sources.id)),
            match_source |-> determineMatchSource(sources)]>>

fusionPhaseDouble(scores, m, input) ==
    IF scores = <<>> THEN <<>>
    ELSE fusionStepDouble(Head(scores), computeFusionScoreDouble(Head(scores)), m, input)
            \o fusionPhaseDouble(Tail(scores), m, input)

\* fused.sort((a, b) => b.score - a.score): a stable sort
RECURSIVE insertDescDouble(_, _)
insertDescDouble(sorted, x) ==
    IF sorted = <<>> THEN <<x>>
    ELSE IF ~DLess(Head(sorted).score, x.score)
         THEN <<Head(sorted)>> \o insertDescDouble(Tail(sorted), x)
         ELSE <<x>> \o sorted

RECURSIVE sortDescDouble(_, _)
sortDescDouble(list, sorted) ==
    IF list = <<>> THEN sorted
    ELSE sortDescDouble(Tail(list), insertDescDouble(sorted, Head(list)))

\* the fused score of every evidenced node, in map order
scoredEvidence(evidence) ==
    [i \in 1..Len(evidence) |->
        [sources |-> evidence[i], score |-> computeFusionScoreDouble(evidence[i])]]

\* hybridSearch with Phase 4 and the truncation on double scores; searched is
\* the search up to Phase 3, whose outer map scores holds the evidence
hybridSearchFused(input, m, semantic, searched) ==
    IF searched.error # "none" THEN [error |-> searched.error]
    ELSE [error |-> "none",
          results |-> tokenTruncation([results |-> <<>>, totalTokens |-> 0],
                          sortDescDouble(fusionPhaseDouble(searched.scores, m, input), <<>>),
                          input.limit, input.maxTokens).results,
          semantic |-> semantic,
          scored |-> scoredEvidence(searched.scores)]

-----------------------------------------------------------------------------
(* Specification SpecFusion: the index is loaded, then one hybrid search runs
   with its scores computed in double precision *)

FusionMinScores == {4, 25, 26, 50}

FusionLoad ==
    /\ last.op = "new"
    /\ \E keep \in SUBSET {1, 2}, vs \in BOOLEAN, enc \in BOOLEAN :
          LET st == storeLoad(GraphNodeList, SubList(GraphEdgeList, keep \cup {3, 4, 6}, 1))
          IN  /\ graphNodes' = st.gn
              /\ graphEdges' = st.ge
              /\ nodes' = st.nodes
              /\ vectorStore' = IF vs THEN [present |-> TRUE, ids |-> EmbeddingIds,
                                            vectors |-> EmbeddingVectors]
                                ELSE vectorStore
              /\ encodeFn' = enc
              /\ last' = [op |-> "load", threw |-> st.threw]
              /\ UNCHANGED <<diskVars, cliVars>>

Q_Enti == <<"E", "n", "t", "i">>

HybridSearchFused(input, result) ==
    /\ last' = [op |-> "hybridSearch", input |-> input, r |-> result]
    /\ UNCHANGED <<storeVars, vectorVars, diskVars, cliVars>>

HybridSearchFusedAny ==
    /\ last.op = "load"
    /\ \E queryText \in {Q_padded, Q_Ab, Q_Enti}, expandGraph \in BOOLEAN,
          minScore \in FusionMinScores, qv \in QueryVectors :
          \E input \in {[queryText |-> queryText, expandGraph |-> expandGraph, depth |-> 2,
                         includeKinds |-> NoValue, includeLayers |-> NoValue,
                         respectLayers |-> TRUE, minScore |-> minScore,
                         limit |-> MaxLimit, maxTokens |-> 8000]} :
             HybridSearchFused(input,
                 hybridSearchFused(input, nodes, semanticAvailable(vectorStore, encodeFn),
                     hybridSearch(input, theStore, vectorStore, encodeFn, qv)))

NextFusion == FusionLoad \/ HybridSearchFusedAny

SpecFusion == Init /\ [][NextFusion]_vars

\* the double next above 0.25
QuarterAndOneUlp == [m |-> LAdd(DLiteral(25, 100).m, <<1>>), e |-> DLiteral(25, 100).e]

\* C27: in hybridSearch the fused score of a node without semantic evidence is
\* at most 0.25; therefore, when the vector store or the encoder is absent, a
\* query with minScore = 0.5 returns an empty result list
C27_NonSemanticAtMostQuarter ==
    (last.op = "hybridSearch" /\ last.r.error = "none") =>
        /\ \A i \in 1..Len(last.r.scored) :
              last.r.scored[i].sources.semantic = Unset =>
                 ~DLess(DLiteral(25, 100), last.r.scored[i].score)
        /\ (~last.r.semantic /\ last.input.minScore = 50) => last.r.results = <<>>

\* C27, amended: the fused score of a node without semantic evidence is at
\* most the double next above 0.25, which lexical and graph evidence together
\* give, and so below 0.5; therefore, when the vector store or the encoder is
\* absent, a query with minScore = 0.5 returns an empty result list
C27_NonSemanticBelowHalf ==
    (last.op = "hybridSearch" /\ last.r.error = "none") =>
        /\ \A i \in 1..Len(last.r.scored) :
              last.r.scored[i].sources.semantic = Unset =>
                 /\ ~DLess(QuarterAndOneUlp, last.r.scored[i].score)
                 /\ DLess(last.r.scored[i].score, DLiteral(5, 10))
        /\ (~last.r.semantic /\ last.input.minScore = 50) => last.r.results = <<>>

\* a search without the vector store that found a node with lexical and graph
\* evidence and returned nothing at minScore = 0.5
C27_Witness ==
    /\ last.op = "hybridSearch"
    /\ last.r.error = "none"
    /\ ~last.r.semantic
    /\ last.input.minScore = 50
    /\ last.r.results = <<>>
    /\ \E i \in 1..Len(last.r.scored) :
          /\ last.r.scored[i].sources.graph > 0
          /\ last.r.scored[i].sources.lexical > 0
          /\ last.r.scored[i].score = QuarterAndOneUlp

-----------------------------------------------------------------------------
(* The analyzed node of an impact query, under SpecQuery *)

\* C28: impactQuery never lists the analyzed node itself in directlyAffected or
\* in transitivelyAffected, graphs with an edge from a node to itself included
C28_AnalyzedNodeNotAffected ==
    (last.op = "impactQuery" /\ last.result.error = "none") =>
        /\ \A i \in 1..Len(last.result.directlyAffected) :
              last.result.directlyAffected[i].node_id # last.nodeId
        /\ \A i \in 1..Len(last.result.transitivelyAffected) :
              last.result.transitivelyAffected[i].node_id # last.nodeId


-----------------------------------------------------------------------------
(* Searches of a process that loaded the tree the index command wrote: the
   vector store holds the embeddings of every embedding file, the graph the
   node of every node file *)

\* hybridSearch on the container; matches are the hits of vectorStore.search
ContainerHybridSearch(input, qv) ==
    /\ last.op = "createContainer"
    /\ last' = [op |-> "containerHybridSearch", input |-> input,
                matches |-> IF semanticAvailable(vectorStore, encodeFn)
                            THEN vectorSearch(vectorStore, qv, input.limit * 3,
                                              8 * input.minScore)
                            ELSE <<>>,
                r |-> hybridSearch(input, theStore, vectorStore, encodeFn, qv)]
    /\ UNCHANGED <<storeVars, vectorVars, diskVars, cliVars>>

\* semanticQuery on the container
ContainerSemanticQuery(input, qv) ==
    /\ last.op = "createContainer"
    /\ vectorStore.present /\ encodeFn
    /\ last' = [op |-> "containerSemanticQuery", input |-> input,
                matches |-> vectorSearch(vectorStore, qv, input.limit * 3,
                                         10 * input.minScore),
                r |-> semanticQuery(input, theStore, vectorStore, qv)]
    /\ UNCHANGED <<storeVars, vectorVars, diskVars, cliVars>>

ContainerHybridSearchAny ==
    \E limit \in {1, MaxLimit}, qv \in QueryVectors :
        ContainerHybridSearch([queryText |-> Q_none, expandGraph |-> FALSE, depth |-> 1,
                               includeKinds |-> NoValue, includeLayers |-> NoValue,
                               respectLayers |-> FALSE, minScore |-> 50,
                               limit |-> limit, maxTokens |-> 8000], qv)

ContainerSemanticQueryAny ==
    \E limit \in {MaxLimit, MaxLimit + 1}, qv \in QueryVectors :
        ContainerSemanticQuery([queryText |-> Q_none, includeKinds |-> NoValue,
                                includeLayers |-> NoValue, minScore |-> 50,
                                limit |-> limit], qv)

NextCredit ==
    \/ IndexStartAny
    \/ IndexStepAny
    \/ IndexManifest
    \/ LoadContainer
    \/ ContainerHybridSearchAny
    \/ ContainerSemanticQueryAny

SpecCredit == Init /\ [][NextCredit]_vars

\* the embeddings of the tree, each with the document that produced it
TreeEmbeddings == UNION {Range(f.data) : f \in embFiles}

\* the embeddings whose chunk is among the hits of the last search and whose
\* document has a node in the loaded graph
HitEmbeddings ==
    {e \in TreeEmbeddings :
        /\ \E i \in 1..Len(last.matches) : last.matches[i].id = e.id
        /\ mapHas(nodes, makeNodeId(e.document_kind, e.document_id))}

C30_TreeHoldsOnlyThisRun ==
    last.op = "createContainer" =>
        /\ \A i \in 1..Len(nodes) :
              \E j \in 1..Len(cli.nodes) : cli.nodes[j].id = nodes[i].id
        /\ manifestFile.data.stats.nodes = Len(nodes)
        /\ \A f \in nodeFiles :
              \E j \in 1..Len(cli.nodes) : cli.nodes[j].id = f.data.id
        /\ \A f \in embFiles : \A e \in Range(f.data) :
              \E j \in 1..Len(cli.nodes) :
                  cli.nodes[j].id = makeNodeId(e.document_kind, e.document_id)

====
